---- MODULE Spec2Model ----
(***************************************************************************)
(* Agent execution controller of Wzzz233/agent:                            *)
(*   - the ADS workflow state machine (servers_local/workflow_manager.py), *)
(*   - the loop guard (app/agents/control_layer.py) and the session agent   *)
(*     loop that drives it (app/agents/services/agent_service.py),          *)
(*   - the session registry (app/agents/services/session_manager.py).       *)
(* Each part has its own specification; the variables of the other parts   *)
(* keep their initial values under it.                                      *)
(***************************************************************************)
EXTENDS Integers, Sequences, FiniteSets, TLC

VARIABLES
    context,        \* WorkflowManager.context (a WorkflowContext)
    wf_ret,         \* the last WorkflowManager call and what it returned
    state_file,     \* what the file WorkflowManager.state_file holds
    loop_state,     \* session.control_layer.state (a LoopState)
    calls,          \* every tool call recorded by the guard, and whether it was executed
    pc,             \* where _run_session_agent_loop stands: "idle", "think", "tools"
    turn_count,     \* the loop's local turn_count
    pending,        \* the tool calls of the current model response not yet processed
    response,       \* what the last invocation of the loop returned
    last_check,     \* the last should_terminate_after_tool call and its verdict
    messages,       \* session.messages: the history of the session
    llm_messages,   \* the local list "messages" of the loop, sent to the model
    _sessions,      \* SessionManager._sessions: the sessions in insertion order
    now,            \* time.time()
    issued,         \* how many session ids uuid4 has produced
    sm_pc,          \* where a get_or_create_session call stands between its two locked calls
    sm_ret,         \* the last SessionManager call and what it returned
    ads_ret,        \* the last call of a tool of the ADS server and what it did
    _lock,          \* SessionManager._lock: the worker that holds it
    w_pc,           \* where each worker stands in its SessionManager call
    w_ret,          \* the last SessionManager call a worker returned from
    chat_session,   \* the Session objects of two conversations, by name
    ses_ret,        \* the last operation on one of the two sessions
    _tool_call_counter, \* qwen_adapter._tool_call_counter: total_count and per_tool_count
    _counter_lock,  \* the thread that holds qwen_adapter._counter_lock, or NoWorker
    c_pc            \* where each thread is in a counter call, its tool and its local per_tool

wf_vars == <<context, wf_ret, state_file>>
loop_vars == <<loop_state, calls, pc, turn_count, pending, response, last_check, messages, llm_messages>>
sm_vars == <<_sessions, now, issued, sm_pc, sm_ret>>
ads_vars == <<ads_ret>>
conc_vars == <<_lock, w_pc, w_ret>>
ses_vars == <<chat_session, ses_ret>>
cnt_vars == <<_tool_call_counter, _counter_lock, c_pc>>

vars ==
    <<context, wf_ret, state_file, loop_state, calls, pc, turn_count, pending, response, last_check,
      messages, llm_messages, _sessions, now, issued, sm_pc, sm_ret, ads_ret,
      _lock, w_pc, w_ret, chat_session, ses_ret,
      _tool_call_counter, _counter_lock, c_pc>>

\* Python's None, for the string-valued optional fields
None == "None"

(***************************************************************************)
(* Workflow state machine                                                  *)
(***************************************************************************)

\* class WorkflowState
WorkflowState ==
    {"IDLE", "PLANNING", "SCHEMATIC_CREATED", "WAITING_USER", "COMPONENT_ADDING", "COMPLETED"}

\* mutant of TOOLS_BY_STATE: plan_circuit is still listed in WAITING_USER
TOOLS_BY_STATE_plan_kept(s) ==
    CASE s = "IDLE" ->
            {"check_connection", "get_project_structure", "list_cells", "check_cell_exists",
             "get_current_design", "get_workflow_status", "plan_circuit", "open_existing_design"}
      [] s = "PLANNING" ->
            {"check_connection", "get_workflow_status", "plan_circuit", "reset_workflow"}
      [] s = "SCHEMATIC_CREATED" ->
            {"check_connection", "get_workflow_status", "get_current_design",
             "execute_circuit_plan", "reset_workflow"}
      [] s = "WAITING_USER" ->
            {"check_connection", "get_workflow_status", "get_current_design",
             "confirm_design_open", "plan_circuit", "reset_workflow"}
      [] s = "COMPONENT_ADDING" ->
            {"check_connection", "get_workflow_status", "get_current_design", "add_component",
             "add_wire", "add_components_from_plan", "save_current_design", "finish_design",
             "reset_workflow"}
      [] s = "COMPLETED" ->
            {"check_connection", "get_workflow_status", "get_project_structure", "plan_circuit",
             "reset_workflow"}
      [] OTHER -> {}

\* TOOLS_BY_STATE
TOOLS_BY_STATE(s) ==
    CASE s = "IDLE" ->
            {"check_connection", "get_project_structure", "list_cells", "check_cell_exists",
             "get_current_design", "get_workflow_status", "plan_circuit", "open_existing_design"}
      [] s = "PLANNING" ->
            {"check_connection", "get_workflow_status", "plan_circuit", "reset_workflow"}
      [] s = "SCHEMATIC_CREATED" ->
            {"check_connection", "get_workflow_status", "get_current_design",
             "execute_circuit_plan", "reset_workflow"}
      [] s = "WAITING_USER" ->
            {"check_connection", "get_workflow_status", "get_current_design",
             "confirm_design_open", "reset_workflow"}
      [] s = "COMPONENT_ADDING" ->
            {"check_connection", "get_workflow_status", "get_current_design", "add_component",
             "add_wire", "add_components_from_plan", "save_current_design", "finish_design",
             "reset_workflow"}
      [] s = "COMPLETED" ->
            {"check_connection", "get_workflow_status", "get_project_structure", "plan_circuit",
             "reset_workflow"}
      [] OTHER -> {}

\* GLOBAL_TOOLS
GLOBAL_TOOLS == {"reset_workflow", "get_workflow_status", "check_connection"}

\* every tool name of the ADS server, and one name no table holds
ToolNames ==
    UNION {TOOLS_BY_STATE(s) : s \in WorkflowState} \cup GLOBAL_TOOLS \cup {"unknown_tool"}

\* The plans plan_circuit can hand to set_plan: the component list and the
\* "circuit" entry (library, name, design_uri; design_uri is None without a library).
PlanData ==
    [ planA |-> [components |-> <<"R1", "C1">>,
                 circuit |-> [library |-> "lib", name |-> "lpf",
                              design_uri |-> "lib:lpf:schematic"]],
      planB |-> [components |-> <<"R1">>,
                 circuit |-> [library |-> None, name |-> "amp", design_uri |-> None]] ]

PlanNames == DOMAIN PlanData
PlanIds == {"id1", "id2"}
DesignUris == {"lib:amp:schematic"}

\* bound on components_added in the model
MaxAdded == 2

\* WorkflowContext(): the dataclass defaults (last_updated, a timestamp, is left out)
WorkflowContext ==
    [ state |-> "IDLE", plan_id |-> None, plan_data |-> None, design_uri |-> None,
      library_name |-> None, cell_name |-> None, components_added |-> 0,
      total_components |-> 0, error_message |-> None ]

ContextFields == DOMAIN WorkflowContext

\* mutant of get_allowed_tools: the answer also looks at the plan
get_allowed_tools_plan_aware(c) ==
    LET state_tools == TOOLS_BY_STATE(c.state)
        with_plan == IF c.plan_id # None THEN state_tools \cup {"execute_circuit_plan"}
                     ELSE state_tools
    IN IF c.state # "IDLE" THEN with_plan \cup GLOBAL_TOOLS ELSE with_plan

\* mutant of get_allowed_tools: the global tools are added in IDLE as well
get_allowed_tools_idle_too(c) == TOOLS_BY_STATE(c.state) \cup GLOBAL_TOOLS

\* WorkflowManager.get_allowed_tools
get_allowed_tools(c) ==
    LET state_tools == TOOLS_BY_STATE(c.state)
    IN IF c.state # "IDLE" THEN state_tools \cup GLOBAL_TOOLS ELSE state_tools

\* WorkflowManager.is_tool_allowed
is_tool_allowed(c, tool_name) == tool_name \in get_allowed_tools(c)

\* WorkflowManager._get_valid_transitions
_get_valid_transitions(from_state) ==
    CASE from_state = "IDLE" -> {"PLANNING"}
      [] from_state = "PLANNING" -> {"SCHEMATIC_CREATED", "IDLE"}
      [] from_state = "SCHEMATIC_CREATED" -> {"WAITING_USER", "IDLE"}
      [] from_state = "WAITING_USER" -> {"COMPONENT_ADDING", "IDLE"}
      [] from_state = "COMPONENT_ADDING" -> {"COMPLETED", "IDLE"}
      [] from_state = "COMPLETED" -> {"IDLE", "PLANNING"}
      [] OTHER -> {"IDLE"}

\* The keyword arguments transition_to is called with: a mapping from names to
\* values; "note" is a name that is no field of the context.
Kwargs ==
    { <<>> , [plan_id |-> "id1"], [note |-> "x"],
      [design_uri |-> "lib:amp:schematic", error_message |-> "failed"] }

\* the loop "for key, value in kwargs.items(): if hasattr(...): setattr(...)"
ApplyKwargs(c, kwargs) ==
    [f \in ContextFields |->
        IF kwargs # <<>> /\ f \in DOMAIN kwargs THEN kwargs[f] ELSE c[f]]

\* WorkflowManager.transition_to: the new context (an invalid transition is
\* logged and applied all the same)
transition_to(c, new_state, kwargs) ==
    ApplyKwargs([c EXCEPT !.state = new_state], kwargs)

\* mutant of reset: only the state goes back to IDLE
reset_state_only(c) == [c EXCEPT !.state = "IDLE"]

\* WorkflowManager.reset: a fresh context
reset(c) == WorkflowContext

\* mutant of set_plan: total_components is left as it was
set_plan_no_count(c, plan_id, plan_name) ==
    LET circuit == PlanData[plan_name].circuit
        c1 == [c EXCEPT !.plan_id = plan_id,
                        !.plan_data = plan_name,
                        !.library_name = circuit.library,
                        !.cell_name = circuit.name,
                        !.design_uri = circuit.design_uri]
    IN transition_to(c1, "SCHEMATIC_CREATED", <<>>)

\* WorkflowManager.set_plan
set_plan(c, plan_id, plan_name) ==
    LET plan_data == PlanData[plan_name]
        circuit == plan_data.circuit
        c1 == [c EXCEPT !.plan_id = plan_id,
                        !.plan_data = plan_name,
                        !.total_components = Len(plan_data.components),
                        !.library_name = circuit.library,
                        !.cell_name = circuit.name,
                        !.design_uri = circuit.design_uri]
    IN transition_to(c1, "SCHEMATIC_CREATED", <<>>)

\* mutant of set_design_uri: the design_uri is left as set_plan stored it
set_design_uri_kept(c, design_uri) == c

\* WorkflowManager.set_design_uri
set_design_uri(c, design_uri) == [c EXCEPT !.design_uri = design_uri]

\* WorkflowManager.increment_components_added
increment_components_added(c, count) ==
    [c EXCEPT !.components_added = c.components_added + count]

\* what a call that changes the context leaves in wf_ret: its name, the state it
\* started from and whether a plan was set then
Mutation(op, before) ==
    [op |-> op, tool |-> None, result |-> FALSE,
     from_state |-> before.state, had_plan |-> before.plan_id # None]

\* the state file when os.path.exists(self.state_file) is false
NoFile == [exists |-> FALSE]

\* the fields of the context that are Optional: None in Python, null in JSON
OptionalFields ==
    {"plan_id", "plan_data", "design_uri", "library_name", "cell_name", "error_message"}

\* WorkflowManager._save_state: json.dump(self.context.to_dict(), f), where
\* to_dict is asdict with the state as its value string; the file afterwards
_save_state(c) ==
    [ exists |-> TRUE,
      data |-> [f \in ContextFields |->
                   IF f \in OptionalFields /\ c[f] = None THEN "null" ELSE c[f]] ]

\* WorkflowManager._load_state: WorkflowContext.from_dict(json.load(f)), or the
\* default context without a file
_load_state(file) ==
    IF ~file.exists THEN WorkflowContext
    ELSE [f \in ContextFields |->
            IF f \in OptionalFields /\ file.data[f] = "null" THEN None ELSE file.data[f]]

InitWF ==
    /\ state_file = NoFile
    /\ context = _load_state(state_file)
    /\ wf_ret = Mutation("init", WorkflowContext)

TransitionTo ==
    \E new_state \in WorkflowState, kwargs \in Kwargs :
        /\ context' = transition_to(context, new_state, kwargs)
        /\ state_file' = _save_state(context')
        /\ wf_ret' = Mutation("transition_to", context)
        /\ UNCHANGED <<loop_vars, sm_vars, ads_vars, conc_vars, ses_vars, cnt_vars>>

Reset ==
    /\ context' = reset(context)
    /\ state_file' = _save_state(context')
    /\ wf_ret' = Mutation("reset", context)
    /\ UNCHANGED <<loop_vars, sm_vars, ads_vars, conc_vars, ses_vars, cnt_vars>>

SetPlan ==
    \E plan_id \in PlanIds, plan_name \in PlanNames :
        /\ context' = set_plan(context, plan_id, plan_name)
        /\ state_file' = _save_state(context')
        /\ wf_ret' = Mutation("set_plan", context)
        /\ UNCHANGED <<loop_vars, sm_vars, ads_vars, conc_vars, ses_vars, cnt_vars>>

SetDesignUri ==
    \E design_uri \in DesignUris :
        /\ context' = set_design_uri(context, design_uri)
        /\ state_file' = _save_state(context')
        /\ wf_ret' = Mutation("set_design_uri", context)
        /\ UNCHANGED <<loop_vars, sm_vars, ads_vars, conc_vars, ses_vars, cnt_vars>>

IncrementComponentsAdded ==
    \E count \in {1, 2} :
        /\ context.components_added + count <= MaxAdded
        /\ context' = increment_components_added(context, count)
        /\ state_file' = _save_state(context')
        /\ wf_ret' = Mutation("increment_components_added", context)
        /\ UNCHANGED <<loop_vars, sm_vars, ads_vars, conc_vars, ses_vars, cnt_vars>>

\* a call of is_tool_allowed: it reads the context and returns the answer
IsToolAllowed ==
    \E tool_name \in ToolNames :
        /\ wf_ret' = [op |-> "is_tool_allowed", tool |-> tool_name,
                      result |-> is_tool_allowed(context, tool_name),
                      from_state |-> context.state, had_plan |-> context.plan_id # None]
        /\ UNCHANGED <<context, state_file>>
        /\ UNCHANGED <<loop_vars, sm_vars, ads_vars, conc_vars, ses_vars, cnt_vars>>


(***************************************************************************)
(* Loop guard: ControlLayerConfig, LoopState, ControlLayer                 *)
(***************************************************************************)

\* ControlLayerConfig.TERMINATION_ACTIONS
TERMINATION_ACTIONS == {"add_components_from_plan", "execute_circuit_plan", "save_current_design"}

\* ControlLayerConfig.CONFIRMATION_REQUIRED_ACTIONS
CONFIRMATION_REQUIRED_ACTIONS == {"plan_circuit"}

MAX_TOOL_CALLS_TOTAL == 15
MAX_TOOL_CALLS_PER_TOOL == 5
MAX_SAME_TOOL_CALLS == 3

\* A tool's arguments: a Python dict, here the sequence of its (key, value)
\* items in insertion order. Keys are ranked as Python orders the strings.
KeyRank == [x |-> 1, y |-> 2]

ArgDicts ==
    { << <<"x", 1>> >>,
      << <<"x", 2>> >>,
      << <<"x", 1>>, <<"y", 2>> >>,
      << <<"y", 2>>, <<"x", 1>> >> }

\* dict equality: the same keys with the same values, whatever the order
SameDict(a, b) == {a[i] : i \in DOMAIN a} = {b[i] : i \in DOMAIN b}

\* the items with one more item put at its place by key
RECURSIVE InsertByKey(_, _)
InsertByKey(item, sorted) ==
    IF sorted = <<>> THEN <<item>>
    ELSE IF KeyRank[item[1]] <= KeyRank[Head(sorted)[1]] THEN <<item>> \o sorted
    ELSE <<Head(sorted)>> \o InsertByKey(item, Tail(sorted))

\* json.dumps(tool_args, sort_keys=True): the items in key order
RECURSIVE json_dumps_sorted(_)
json_dumps_sorted(items) ==
    IF items = <<>> THEN <<>>
    ELSE InsertByKey(Head(items), json_dumps_sorted(Tail(items)))

\* mutant of Signature: the arguments are dumped in insertion order
Signature_unsorted(tool_name, tool_args) == <<tool_name, tool_args>>

\* the signature f"{tool_name}:{json.dumps(tool_args, sort_keys=True)}"
Signature(tool_name, tool_args) == <<tool_name, json_dumps_sorted(tool_args)>>

\* LoopState.__init__ (the empty signature "" is the empty tuple)
LoopState ==
    [ turn_count |-> 0, tools_called_in_session |-> <<>>, tool_call_signatures |-> <<>>,
      last_tool_call_signature |-> <<>>, consecutive_same_tool_calls |-> 0 ]

\* mutant of LoopState_record_tool_call: the counter is never reset
LoopState_record_tool_call_no_reset(st, tool_name, tool_args) ==
    LET signature == Signature(tool_name, tool_args)
    IN [st EXCEPT
          !.consecutive_same_tool_calls = st.consecutive_same_tool_calls + 1,
          !.last_tool_call_signature = signature,
          !.tool_call_signatures = Append(st.tool_call_signatures, signature),
          !.tools_called_in_session = Append(st.tools_called_in_session, tool_name)]

\* LoopState.record_tool_call
LoopState_record_tool_call(st, tool_name, tool_args) ==
    LET signature == Signature(tool_name, tool_args)
    IN [st EXCEPT
          !.consecutive_same_tool_calls =
              IF signature = st.last_tool_call_signature
              THEN st.consecutive_same_tool_calls + 1 ELSE 0,
          !.last_tool_call_signature = signature,
          !.tool_call_signatures = Append(st.tool_call_signatures, signature),
          !.tools_called_in_session = Append(st.tools_called_in_session, tool_name)]

\* ControlLayer.record_tool_call
record_tool_call(st, tool_name, tool_args) ==
    LET st1 == LoopState_record_tool_call(st, tool_name, tool_args)
    IN [st1 EXCEPT !.turn_count = st1.turn_count + 1]

\* The shapes of a tool result the guard tells apart: whether the string parses
\* as a JSON object, that object's "status", and whether the string holds
\* "success", a check mark or a green tick.
JsonSuccess == [is_json_dict |-> TRUE, status |-> "success", success_mark |-> TRUE]
JsonError == [is_json_dict |-> TRUE, status |-> "error", success_mark |-> FALSE]
JsonNoStatus == [is_json_dict |-> TRUE, status |-> None, success_mark |-> TRUE]
PlainError == [is_json_dict |-> FALSE, status |-> None, success_mark |-> FALSE]
PlainTick == [is_json_dict |-> FALSE, status |-> None, success_mark |-> TRUE]

ToolResults == {JsonSuccess, JsonError, JsonNoStatus, PlainError, PlainTick}

\* ControlLayer._is_successful_result (for the str results call_tool returns)
_is_successful_result(result) ==
    IF result.is_json_dict THEN result.status = "success" ELSE result.success_mark

\* TerminationReason values; NoReason is the None of (False, None, "")
NoReason == "none"
TERMINATION_ACTION_CALLED == "termination_action"
USER_CONFIRMATION_REQUIRED == "user_confirmation_required"
TOOL_CALL_LIMIT_REACHED == "tool_call_limit"
INFINITE_LOOP_DETECTED == "infinite_loop"

\* mutant of should_terminate_after_tool: the counters are looked at first
should_terminate_counters_first(st, tool_name, tool_result) ==
    IF st.consecutive_same_tool_calls >= MAX_SAME_TOOL_CALLS
        THEN INFINITE_LOOP_DETECTED
    ELSE IF Len(st.tools_called_in_session) >= MAX_TOOL_CALLS_TOTAL
        THEN TOOL_CALL_LIMIT_REACHED
    ELSE IF tool_name \in TERMINATION_ACTIONS /\ _is_successful_result(tool_result)
        THEN TERMINATION_ACTION_CALLED
    ELSE IF tool_name \in CONFIRMATION_REQUIRED_ACTIONS
        THEN USER_CONFIRMATION_REQUIRED
    ELSE NoReason

\* ControlLayer.should_terminate_after_tool: the reason, NoReason for (False, None, "")
should_terminate_after_tool(st, tool_name, tool_result) ==
    IF tool_name \in TERMINATION_ACTIONS /\ _is_successful_result(tool_result)
        THEN TERMINATION_ACTION_CALLED
    ELSE IF tool_name \in CONFIRMATION_REQUIRED_ACTIONS
        THEN USER_CONFIRMATION_REQUIRED
    ELSE IF st.consecutive_same_tool_calls >= MAX_SAME_TOOL_CALLS
        THEN INFINITE_LOOP_DETECTED
    ELSE IF Len(st.tools_called_in_session) >= MAX_TOOL_CALLS_TOTAL
        THEN TOOL_CALL_LIMIT_REACHED
    ELSE NoReason

\* the tools the guard is exercised with: one outside both sets, one
\* termination action, the confirmation action
GuardTools == {"add_component", "save_current_design", "plan_circuit"}

\* bound on the calls recorded when the guard is exercised alone
MaxRecorded == 4

NoCheck ==
    [ tool |-> None, ok |-> FALSE, success |-> FALSE, reason |-> NoReason,
      raised |-> FALSE, denied |-> FALSE, rest |-> 0 ]

InitLoop ==
    /\ loop_state = LoopState
    /\ calls = <<>>
    /\ pc = "idle"
    /\ turn_count = 0
    /\ pending = <<>>
    /\ response = [kind |-> "none", reason |-> NoReason, session_id |-> FALSE, raised |-> FALSE]
    /\ messages = <<>>
    /\ llm_messages = <<>>
    /\ last_check = NoCheck

\* ControlLayer.record_tool_call, called on its own
GuardRecord ==
    \E tool_name \in GuardTools, tool_args \in ArgDicts :
        /\ Len(calls) < MaxRecorded
        /\ loop_state' = record_tool_call(loop_state, tool_name, tool_args)
        /\ calls' = Append(calls, [name |-> tool_name, args |-> tool_args, executed |-> FALSE])
        /\ UNCHANGED <<pc, turn_count, pending, response, last_check, messages, llm_messages>>
        /\ UNCHANGED <<wf_vars, sm_vars, ads_vars, conc_vars, ses_vars, cnt_vars>>

(***************************************************************************)
(* Session agent loop: AgentService._run_session_agent_loop                *)
(***************************************************************************)

\* max_turns of _run_session_agent_loop
MAX_TURNS == 10

\* tool_call.function.arguments as the model sends it: a string that is valid
\* JSON of a dict, or not JSON
RawX1 == [valid |-> TRUE, items |-> << <<"x", 1>> >>]
RawX2 == [valid |-> TRUE, items |-> << <<"x", 2>> >>]
RawBad == [valid |-> FALSE, items |-> <<>>]

\* "try: tool_args = json.loads(...) except json.JSONDecodeError: tool_args = {}"
json_loads_or_empty(arguments) == IF arguments.valid THEN arguments.items ELSE <<>>

\* format_human_response(message, data): the JSON text of a dict whose "status"
\* is "success" whatever the message says
format_human_response(tool_ok) == JsonSuccess

\* What call_tool(name, args) can do. ok tells whether the tool did its work.
\*   - an ADS tool that did its work returns format_human_response(...);
\*   - an ADS tool that failed (state check, no plan, no client, ADS error)
\*     returns format_human_response(<error text>) as well;
\*   - a tool may return a JSON dict with another status;
\*   - the registry and the MCP proxy turn an exception into an error text;
\*   - call_tool itself may raise.
\* denied tells whether the workflow phase check of the tool refused the call,
\* which only the ADS server knows.
ToolOutcomes ==
    { [ok |-> TRUE, raised |-> FALSE, denied |-> FALSE, result |-> format_human_response(TRUE)],
      [ok |-> FALSE, raised |-> FALSE, denied |-> FALSE, result |-> format_human_response(FALSE)],
      [ok |-> FALSE, raised |-> FALSE, denied |-> FALSE, result |-> JsonError],
      [ok |-> FALSE, raised |-> FALSE, denied |-> FALSE, result |-> PlainError],
      [ok |-> FALSE, raised |-> TRUE, denied |-> FALSE, result |-> PlainError] }

\* "except Exception as e: tool_result = f'Error executing {tool_name}: {str(e)}'"
ToolResultOf(outcome) == IF outcome.raised THEN PlainError ELSE outcome.result

\* the tool calls a model may request when it is left free
LoopToolCalls == [name : GuardTools, arguments : {RawX1, RawBad}]

\* bounds of the free model: recorded calls per session, tool calls per response
MaxCalls == 2
MaxBatch == 2

\* the model that never repeats itself: one call per response, of a tool outside
\* both sets, never with the signature recorded last
NonRepeatingToolCalls == [name : {"add_component"}, arguments : {RawX1, RawX2}]

\* bound on the recorded calls per session under the non-repeating model
MaxDeepCalls == 17

\* bound on the invocations of the loop on the session
MaxInvocations == 1

Batches(n) == UNION {[1..k -> LoopToolCalls] : k \in 1..n}

\* an entry of session.messages: role, tool name (of a tool result) and what
\* the content is
Msg(role, name, content) == [role |-> role, name |-> name, content |-> content]

\* the user messages of the history: one per invocation
Invocations(msgs) == Cardinality({i \in DOMAIN msgs : msgs[i].role = "user"})

\* mutant of ToolMessage: the history keeps the beginning of the result only
ToolMessage_prefix(tool_name, outcome) == Msg("tool", tool_name, "prefix")

\* session.add_tool_result(tool_call.id, tool_name, str(tool_result)): the text
\* the tool returned, or for a call that raised "Error executing <name>: ..."
ToolMessage(tool_name, outcome) ==
    Msg("tool", tool_name, IF outcome.raised THEN "Error executing" ELSE "result")

\* "tool_msg = {...}; messages.append(tool_msg)": the entry for the model
tool_msg(tool_name, outcome) ==
    Msg("tool", tool_name, IF outcome.raised THEN "Error executing" ELSE "result")

\* the system message of the configuration
SystemMessage == Msg("system", None, "system_message")

\* _build_messages_from_session: the system message, then session.messages
_build_messages_from_session(msgs) == <<SystemMessage>> \o msgs

\* What _run_session_agent_loop hands to chat_with_session: the dict it
\* returns, or the exception that leaves it. _clean_response(final_response)
\* is outside the try of the turn and raises on a content that is no string.
LoopResult(kind, reason) ==
    [kind |-> kind, reason |-> reason, raised |-> kind = "not_str"]

\* mutant of chat_with_session: without the except branch
chat_with_session_no_except(result) ==
    [ kind |-> result.kind, reason |-> result.reason,
      session_id |-> ~result.raised, raised |-> result.raised ]

\* chat_with_session, from run_in_executor on: {**result, "session_id": ...},
\* or in the except branch the error message with "session_id"
chat_with_session(result) ==
    IF result.raised
    THEN [kind |-> "exception", reason |-> NoReason, session_id |-> TRUE, raised |-> FALSE]
    ELSE [ kind |-> result.kind, reason |-> result.reason,
           session_id |-> TRUE, raised |-> FALSE ]

Returned(kind, reason) == chat_with_session(LoopResult(kind, reason))

\* no invocation has returned yet / the invocation is running
NoResponse(kind) ==
    [kind |-> kind, reason |-> NoReason, session_id |-> FALSE, raised |-> FALSE]

\* mutant of AfterLoop: without lines 309-311
AfterLoop_no_ceiling(final_kind, turns) == Returned(final_kind, NoReason)

\* lines 309-311: an empty final_response at the turn ceiling becomes the fixed
\* "simplify your request" message
AfterLoop(final_kind, turns) ==
    IF final_kind = "empty" /\ turns >= MAX_TURNS
    THEN Returned("max_turns", NoReason)
    ELSE Returned(final_kind, NoReason)

\* line 311: session.add_message("assistant", final_response) for that message
AfterLoopMessages(msgs, final_kind, turns) ==
    IF final_kind = "empty" /\ turns >= MAX_TURNS
    THEN Append(msgs, Msg("assistant", None, "max_turns"))
    ELSE msgs

\* mutant of turn_except: the history is rebuilt from the user message
turn_except_truncating(msgs) ==
    <<Msg("user", None, "message"), Msg("assistant", None, "error")>>

\* "except Exception as e" of the turn: final_response is the error text and
\* session.add_message("assistant", final_response)
turn_except(msgs) == Append(msgs, Msg("assistant", None, "error"))

\* mutant of after_tool: "while True" in place of "while turn_count < max_turns"
after_tool_no_ceiling(reason, rest, turns) ==
    IF reason # NoReason THEN "terminate"
    ELSE IF rest # <<>> THEN "next_call"
    ELSE "next_turn"

\* mutant of after_tool: the rest of the batch runs after a termination
after_tool_no_break(reason, rest, turns) ==
    IF rest # <<>> THEN "next_call"
    ELSE IF reason # NoReason THEN "terminate"
    ELSE IF turns < MAX_TURNS THEN "next_turn"
    ELSE "ceiling"

\* where the loop goes after one tool call: "break" out of both loops when the
\* guard says so, else the next call of the batch, else the next turn while
\* turn_count < max_turns
after_tool(reason, rest, turns) ==
    IF reason # NoReason THEN "terminate"
    ELSE IF rest # <<>> THEN "next_call"
    ELSE IF turns < MAX_TURNS THEN "next_turn"
    ELSE "ceiling"

\* an invocation begins: the user message is added, turn_count = 0
BeginInvocation ==
    /\ pc = "idle"
    /\ pc' = "think"
    /\ turn_count' = 0
    /\ pending' = <<>>
    /\ response' = NoResponse("running")
    /\ messages' = Append(messages, Msg("user", None, "message"))
    /\ llm_messages' = _build_messages_from_session(messages')
    /\ UNCHANGED <<loop_state, calls, last_check>>
    /\ UNCHANGED <<wf_vars, sm_vars, ads_vars, conc_vars, ses_vars, cnt_vars>>

\* an invocation of the session loop
StartInvocation ==
    /\ Invocations(messages) < MaxInvocations
    /\ BeginInvocation

\* bound on the invocations when the history is replayed
MaxReplays == 2

\* an invocation of the session loop on a session that may hold a history
StartReplayInvocation ==
    /\ Invocations(messages) < MaxReplays
    /\ BeginInvocation

\* an invocation of the session loop with the non-repeating model
StartDeepInvocation ==
    /\ Len(calls) < MaxDeepCalls
    /\ BeginInvocation

\* the tools of the non-repeating model do their work or fail, and answer
\* through format_human_response
DeepToolOutcomes == {o \in ToolOutcomes : o.result = JsonSuccess}

\* _call_llm raises: the except branch of the turn
LLMRaises ==
    /\ pc = "think"
    /\ turn_count' = turn_count + 1
    /\ response' = Returned("error", NoReason)
    /\ messages' = turn_except(messages)
    /\ pc' = "idle"
    /\ UNCHANGED <<loop_state, calls, pending, last_check, llm_messages>>
    /\ UNCHANGED <<wf_vars, sm_vars, ads_vars, conc_vars, ses_vars, cnt_vars>>

\* "if not response: break"
LLMEmptyResponse ==
    /\ pc = "think"
    /\ turn_count' = turn_count + 1
    /\ response' = AfterLoop("empty", turn_count')
    /\ messages' = AfterLoopMessages(messages, "empty", turn_count')
    /\ pc' = "idle"
    /\ UNCHANGED <<loop_state, calls, pending, last_check, llm_messages>>
    /\ UNCHANGED <<wf_vars, sm_vars, ads_vars, conc_vars, ses_vars, cnt_vars>>

\* a completion without tool calls: its content (empty, a text, or no string)
\* is the answer and is added to the history
LLMText ==
    \E content \in {"empty", "text", "not_str"} :
        /\ pc = "think"
        /\ turn_count' = turn_count + 1
        /\ response' = AfterLoop(content, turn_count')
        /\ messages' = AfterLoopMessages(Append(messages, Msg("assistant", None, content)),
                                         content, turn_count')
        /\ pc' = "idle"
        /\ UNCHANGED <<loop_state, calls, pending, last_check, llm_messages>>
        /\ UNCHANGED <<wf_vars, sm_vars, ads_vars, conc_vars, ses_vars, cnt_vars>>

\* a completion with tool calls: session.add_tool_call_message(response_message)
LLMToolCalls ==
    \E batch \in Batches(MaxBatch) :
        /\ pc = "think"
        /\ Len(calls) + Len(batch) <= MaxCalls
        /\ turn_count' = turn_count + 1
        /\ pending' = batch
        /\ messages' = Append(messages, Msg("assistant", None, "tool_calls"))
        /\ llm_messages' = Append(llm_messages, Msg("assistant", None, "tool_calls"))
        /\ pc' = "tools"
        /\ UNCHANGED <<loop_state, calls, response, last_check>>
        /\ UNCHANGED <<wf_vars, sm_vars, ads_vars, conc_vars, ses_vars, cnt_vars>>

\* a completion with one tool call
LLMSingleToolCall ==
    \E tc \in LoopToolCalls :
        /\ pc = "think"
        /\ Len(calls) < MaxCalls
        /\ turn_count' = turn_count + 1
        /\ pending' = <<tc>>
        /\ messages' = Append(messages, Msg("assistant", None, "tool_calls"))
        /\ llm_messages' = Append(llm_messages, Msg("assistant", None, "tool_calls"))
        /\ pc' = "tools"
        /\ UNCHANGED <<loop_state, calls, response, last_check>>
        /\ UNCHANGED <<wf_vars, sm_vars, ads_vars, conc_vars, ses_vars, cnt_vars>>

\* a completion of the non-repeating model
LLMNonRepeatingToolCall ==
    \E tc \in NonRepeatingToolCalls :
        /\ pc = "think"
        /\ Len(calls) < MaxDeepCalls
        /\ Signature(tc.name, json_loads_or_empty(tc.arguments))
               # loop_state.last_tool_call_signature
        /\ turn_count' = turn_count + 1
        /\ pending' = <<tc>>
        /\ messages' = Append(messages, Msg("assistant", None, "tool_calls"))
        /\ llm_messages' = Append(llm_messages, Msg("assistant", None, "tool_calls"))
        /\ pc' = "tools"
        /\ UNCHANGED <<loop_state, calls, response, last_check>>
        /\ UNCHANGED <<wf_vars, sm_vars, ads_vars, conc_vars, ses_vars, cnt_vars>>

\* One pass of "for tool_call in response_message.tool_calls" with what
\* call_tool did: the call is recorded, executed, its result added to the
\* history, and the guard asked whether to stop.
ToolPass(outcome) ==
    LET tool_call == Head(pending)
        tool_name == tool_call.name
        tool_args == json_loads_or_empty(tool_call.arguments)
        recorded == record_tool_call(loop_state, tool_name, tool_args)
        tool_result == ToolResultOf(outcome)
        reason == should_terminate_after_tool(recorded, tool_name, tool_result)
        goes == after_tool(reason, Tail(pending), turn_count)
        fed == Append(messages, ToolMessage(tool_name, outcome))
    IN  /\ loop_state' = recorded
        /\ calls' = Append(calls, [name |-> tool_name, args |-> tool_args,
                                   executed |-> TRUE])
        /\ last_check' = [tool |-> tool_name, ok |-> outcome.ok,
                          success |-> _is_successful_result(tool_result),
                          reason |-> reason, raised |-> outcome.raised,
                          denied |-> outcome.denied, rest |-> Len(pending) - 1]
        /\ pending' = Tail(pending)
        /\ llm_messages' = Append(llm_messages, tool_msg(tool_name, outcome))
        /\ CASE goes = "terminate" ->
                    /\ pc' = "idle"
                    /\ response' = Returned("termination", reason)
                    /\ messages' = Append(fed, Msg("assistant", None, reason))
             [] goes = "next_call" ->
                    /\ pc' = "tools"
                    /\ messages' = fed
                    /\ UNCHANGED response
             [] goes = "next_turn" ->
                    /\ pc' = "think"
                    /\ messages' = fed
                    /\ UNCHANGED response
             [] goes = "ceiling" ->
                    /\ pc' = "idle"
                    /\ response' = AfterLoop("empty", turn_count)
                    /\ messages' = AfterLoopMessages(fed, "empty", turn_count)
        /\ UNCHANGED turn_count

\* a tool call of the batch, whatever the tool does
ToolStep ==
    /\ pc = "tools"
    /\ pending # <<>>
    /\ \E outcome \in ToolOutcomes : ToolPass(outcome)
    /\ UNCHANGED <<wf_vars, sm_vars, ads_vars, conc_vars, ses_vars, cnt_vars>>

\* a tool call of the non-repeating model
DeepToolStep ==
    /\ pc = "tools"
    /\ pending # <<>>
    /\ \E outcome \in DeepToolOutcomes : ToolPass(outcome)
    /\ UNCHANGED <<wf_vars, sm_vars, ads_vars, conc_vars, ses_vars, cnt_vars>>

(***************************************************************************)
(* Session registry: Session, SessionManager                               *)
(***************************************************************************)

\* SessionManager.DEFAULT_EXPIRATION_SECONDS
DEFAULT_EXPIRATION_SECONDS == 30 * 60

\* SessionManager.MAX_SESSIONS is 100 in the source; the capacity is scaled
\* down here so that the registry fills up
MAX_SESSIONS == 2

\* bound on the session ids uuid4 produces
MaxIds == 3

\* bound on how many times the clock is advanced
MaxTicks == 2

\* no session: the None a lookup returns, and the None or "" passed as an id
NoSession == 0

\* self._expiration = expiration_seconds or DEFAULT_EXPIRATION_SECONDS, for
\* the SessionManager() that get_session_manager() builds
_expiration == DEFAULT_EXPIRATION_SECONDS

\* f"session_{uuid.uuid4().hex[:16]}": an id uuid4 has not produced before
\* (ids are numbered in the order they are produced)
NewSessionId(n) == n + 1

\* an id the manager never issues
UnknownId == -1

\* the ids a caller may pass when n ids have been issued: each of them, and
\* an id that was never issued
SessionIdArgs(n) == (1..n) \cup {UnknownId}

\* Session(session_id=...) built at time t; of its fields the registry reads
\* session_id and last_activity
Session(session_id, t) == [session_id |-> session_id, last_activity |-> t]

\* Session.get_idle_seconds
get_idle_seconds(session, t) == t - session.last_activity

\* mutant of expired: a session idle for exactly the window is expired
expired_at_window(session, t) == get_idle_seconds(session, t) >= _expiration

\* session.get_idle_seconds() > self._expiration
expired(session, t) == get_idle_seconds(session, t) > _expiration

\* self._sessions.keys()
SessionIds(sessions) == {sessions[i].session_id : i \in DOMAIN sessions}

\* self._sessions[session_id]
SessionOf(sessions, session_id) ==
    sessions[CHOOSE i \in DOMAIN sessions : sessions[i].session_id = session_id]

\* del self._sessions[session_id]
Remove(sessions, session_id) ==
    SelectSeq(sessions, LAMBDA s : s.session_id # session_id)

\* self._sessions[session_id] = session: a present key keeps its place
Put(sessions, session) ==
    IF session.session_id \in SessionIds(sessions)
    THEN [i \in DOMAIN sessions |->
            IF sessions[i].session_id = session.session_id THEN session ELSE sessions[i]]
    ELSE Append(sessions, session)

\* SessionManager._cleanup_expired: the registry without its expired sessions
_cleanup_expired(sessions, t) ==
    SelectSeq(sessions, LAMBDA s : ~expired(s, t))

\* mutant of oldest_id: the session registered first
first_id(sessions) == sessions[1].session_id

\* min(self._sessions.keys(), key=lambda k: self._sessions[k].last_activity):
\* the first key, in insertion order, whose last_activity is smallest
oldest_id(sessions) ==
    LET i == CHOOSE i \in DOMAIN sessions :
                 /\ \A j \in DOMAIN sessions :
                        sessions[i].last_activity <= sessions[j].last_activity
                 /\ \A j \in 1..(i - 1) :
                        sessions[j].last_activity > sessions[i].last_activity
    IN sessions[i].session_id

\* SessionManager.create_session: the registry afterwards, the session
\* returned and the session evicted for capacity
create_session(sessions, session_id, t) ==
    LET live == _cleanup_expired(sessions, t)
        full == Len(live) >= MAX_SESSIONS
        kept == IF full THEN Remove(live, oldest_id(live)) ELSE live
    IN [ sessions |-> Put(kept, Session(session_id, t)),
         session |-> session_id,
         evicted |-> IF full THEN oldest_id(live) ELSE NoSession ]

\* mutant of get_session: no expiry check
get_session_no_expiry(sessions, session_id, t) ==
    IF session_id \notin SessionIds(sessions)
    THEN [sessions |-> sessions, session |-> NoSession]
    ELSE [sessions |-> sessions, session |-> session_id]

\* SessionManager.get_session: the registry afterwards and the session returned
get_session(sessions, session_id, t) ==
    IF session_id \notin SessionIds(sessions)
    THEN [sessions |-> sessions, session |-> NoSession]
    ELSE IF expired(SessionOf(sessions, session_id), t)
    THEN [sessions |-> Remove(sessions, session_id), session |-> NoSession]
    ELSE [sessions |-> sessions, session |-> session_id]

\* SessionManager.delete_session
delete_session(sessions, session_id) ==
    IF session_id \in SessionIds(sessions)
    THEN [sessions |-> Remove(sessions, session_id), deleted |-> TRUE]
    ELSE [sessions |-> sessions, deleted |-> FALSE]

\* SessionManager.list_sessions: the registry afterwards and the ids listed
list_sessions(sessions, t) ==
    LET live == _cleanup_expired(sessions, t)
    IN [ sessions |-> live,
         listed |-> [i \in DOMAIN live |-> live[i].session_id] ]

\* what a lookup of session_id at time t finds
LookupCase(sessions, session_id, t) ==
    IF session_id = NoSession THEN "no_id"
    ELSE IF session_id \notin SessionIds(sessions) THEN "unknown"
    ELSE IF t - SessionOf(sessions, session_id).last_activity > _expiration THEN "expired"
    ELSE "live"

\* the clock was advanced Ticks(t) times to reach t
Ticks(t) == (t \div DEFAULT_EXPIRATION_SECONDS) + (t % DEFAULT_EXPIRATION_SECONDS)

NoRet ==
    [ op |-> "none", arg |-> NoSession, session |-> NoSession, deleted |-> FALSE,
      listed |-> <<>>, case |-> "no_id", evicted |-> NoSession ]

SmIdle == [at |-> "idle", session_id |-> NoSession, case |-> "no_id"]

InitSM ==
    /\ _sessions = <<>>
    /\ now = 0
    /\ issued = 0
    /\ sm_pc = SmIdle
    /\ sm_ret = NoRet

\* time passes: a second, or a whole expiration window
Tick ==
    \E delta \in {1, DEFAULT_EXPIRATION_SECONDS} :
        /\ Ticks(now) < MaxTicks
        /\ now' = now + delta
        /\ sm_ret' = [NoRet EXCEPT !.op = "tick"]
        /\ UNCHANGED <<_sessions, issued, sm_pc>>
        /\ UNCHANGED <<wf_vars, loop_vars, ads_vars, conc_vars, ses_vars, cnt_vars>>

\* Session.add_message, add_tool_call_message, add_tool_result, clear_messages
\* on a registered session: self.last_activity = time.time()
Touch ==
    \E session_id \in SessionIds(_sessions) :
        /\ _sessions' = Put(_sessions, Session(session_id, now))
        /\ sm_ret' = [NoRet EXCEPT !.op = "touch", !.arg = session_id]
        /\ UNCHANGED <<now, issued, sm_pc>>
        /\ UNCHANGED <<wf_vars, loop_vars, ads_vars, conc_vars, ses_vars, cnt_vars>>

\* SessionManager.create_session
CreateSession ==
    /\ issued < MaxIds
    /\ LET r == create_session(_sessions, NewSessionId(issued), now)
       IN /\ _sessions' = r.sessions
          /\ sm_ret' = [NoRet EXCEPT !.op = "create_session", !.session = r.session,
                                     !.evicted = r.evicted]
    /\ issued' = issued + 1
    /\ UNCHANGED <<now, sm_pc>>
    /\ UNCHANGED <<wf_vars, loop_vars, ads_vars, conc_vars, ses_vars, cnt_vars>>

\* SessionManager.get_session
GetSession ==
    \E session_id \in SessionIdArgs(issued) :
        /\ LET r == get_session(_sessions, session_id, now)
           IN /\ _sessions' = r.sessions
              /\ sm_ret' = [NoRet EXCEPT !.op = "get_session", !.arg = session_id,
                                         !.session = r.session,
                                         !.case = LookupCase(_sessions, session_id, now)]
        /\ UNCHANGED <<now, issued, sm_pc>>
        /\ UNCHANGED <<wf_vars, loop_vars, ads_vars, conc_vars, ses_vars, cnt_vars>>

\* SessionManager.delete_session
DeleteSession ==
    \E session_id \in SessionIdArgs(issued) :
        /\ LET r == delete_session(_sessions, session_id)
           IN /\ _sessions' = r.sessions
              /\ sm_ret' = [NoRet EXCEPT !.op = "delete_session", !.arg = session_id,
                                         !.deleted = r.deleted]
        /\ UNCHANGED <<now, issued, sm_pc>>
        /\ UNCHANGED <<wf_vars, loop_vars, ads_vars, conc_vars, ses_vars, cnt_vars>>

\* SessionManager.list_sessions
ListSessions ==
    /\ LET r == list_sessions(_sessions, now)
       IN /\ _sessions' = r.sessions
          /\ sm_ret' = [NoRet EXCEPT !.op = "list_sessions", !.listed = r.listed]
    /\ UNCHANGED <<now, issued, sm_pc>>
    /\ UNCHANGED <<wf_vars, loop_vars, ads_vars, conc_vars, ses_vars, cnt_vars>>

\* SessionManager.get_or_create_session up to the end of its first locked
\* call: with an id, get_session, returning the session if there is one;
\* without an id, create_session straight away
GetOrCreateSession ==
    \E session_id \in {NoSession} \cup SessionIdArgs(issued) :
        /\ sm_pc.at = "idle"
        /\ issued < MaxIds
        /\ LET case == LookupCase(_sessions, session_id, now)
           IN IF session_id # NoSession
              THEN LET r == get_session(_sessions, session_id, now)
                   IN /\ _sessions' = r.sessions
                      /\ IF r.session # NoSession
                         THEN /\ sm_ret' = [NoRet EXCEPT !.op = "get_or_create_session",
                                                !.arg = session_id, !.session = r.session,
                                                !.case = case]
                              /\ sm_pc' = SmIdle
                         ELSE /\ sm_ret' = [NoRet EXCEPT
                                                !.op = "get_or_create_session.get_session",
                                                !.arg = session_id, !.case = case]
                              /\ sm_pc' = [at |-> "creating", session_id |-> session_id,
                                           case |-> case]
                      /\ UNCHANGED issued
              ELSE LET r == create_session(_sessions, NewSessionId(issued), now)
                   IN /\ _sessions' = r.sessions
                      /\ sm_ret' = [NoRet EXCEPT !.op = "get_or_create_session",
                                        !.session = r.session, !.evicted = r.evicted,
                                        !.case = case]
                      /\ issued' = issued + 1
                      /\ sm_pc' = SmIdle
        /\ UNCHANGED now
        /\ UNCHANGED <<wf_vars, loop_vars, ads_vars, conc_vars, ses_vars, cnt_vars>>

\* SessionManager.get_or_create_session, its second locked call:
\* return self.create_session(metadata)
GetOrCreateSessionCreate ==
    /\ sm_pc.at = "creating"
    /\ issued < MaxIds
    /\ LET r == create_session(_sessions, NewSessionId(issued), now)
       IN /\ _sessions' = r.sessions
          /\ sm_ret' = [NoRet EXCEPT !.op = "get_or_create_session",
                            !.arg = sm_pc.session_id, !.session = r.session,
                            !.evicted = r.evicted, !.case = sm_pc.case]
    /\ issued' = issued + 1
    /\ sm_pc' = SmIdle
    /\ UNCHANGED now
    /\ UNCHANGED <<wf_vars, loop_vars, ads_vars, conc_vars, ses_vars, cnt_vars>>

(***************************************************************************)
(* Session registry under concurrent workers: threading.RLock              *)
(***************************************************************************)

\* the workers (threads) that call the SessionManager
Workers == {1, 2}

\* no worker: the lock is free
NoWorker == 0

\* the four calls
ConcOps == {"create_session", "get_session", "delete_session", "list_sessions"}

\* a worker outside any call
WorkerIdle ==
    [ at |-> "idle", op |-> "none", arg |-> NoSession, snap |-> <<>>, t |-> 0 ]

\* mutant of lock_free: the lock never makes a worker wait
lock_free_always(lock) == TRUE

\* "with self._lock": a worker that does not hold the RLock enters when no
\* other worker holds it
lock_free(lock) == lock = NoWorker

\* the workers inside a "with self._lock" block
InBody(wpc) == {w \in Workers : wpc[w].at # "idle"}

\* the create_session calls that have not drawn their id yet
PendingCreates(wpc) ==
    Cardinality({w \in Workers : wpc[w].at # "idle" /\ wpc[w].op = "create_session"})

\* the first statement of each call inside the lock
FirstStep(op) ==
    CASE op = "create_session" -> "cleanup"
      [] op = "get_session" -> "lookup"
      [] op = "delete_session" -> "check"
      [] op = "list_sessions" -> "cleanup"

NoConcRet ==
    [ worker |-> NoWorker, op |-> "none", arg |-> NoSession, session |-> NoSession,
      deleted |-> FALSE, listed |-> <<>> ]

InitConc ==
    /\ _lock = NoWorker
    /\ w_pc = [w \in Workers |-> WorkerIdle]
    /\ w_ret = NoConcRet

\* mutant of Return: the call returns without leaving the with block
Return_keeps_lock(w, ret) ==
    /\ _lock' = _lock
    /\ w_pc' = [w_pc EXCEPT ![w] = WorkerIdle]
    /\ w_ret' = [ret EXCEPT !.worker = w, !.op = w_pc[w].op, !.arg = w_pc[w].arg]

\* the end of the with block: the lock is released and the call returns
Return(w, ret) ==
    /\ _lock' = NoWorker
    /\ w_pc' = [w_pc EXCEPT ![w] = WorkerIdle]
    /\ w_ret' = [ret EXCEPT !.worker = w, !.op = w_pc[w].op, !.arg = w_pc[w].arg]

\* the worker goes on to its next statement
Goto(w, at) ==
    /\ w_pc' = [w_pc EXCEPT ![w].at = at]
    /\ UNCHANGED <<_lock, w_ret>>

\* time passes between the calls
ConcTick ==
    \E delta \in {1, DEFAULT_EXPIRATION_SECONDS} :
        /\ InBody(w_pc) = {}
        /\ Ticks(now) < MaxTicks
        /\ now' = now + delta
        /\ UNCHANGED <<_sessions, issued, sm_pc, sm_ret, conc_vars>>
        /\ UNCHANGED <<wf_vars, loop_vars, ads_vars, ses_vars, cnt_vars>>

\* a worker calls one of the four methods and enters "with self._lock",
\* which it can when the lock lets it in
ConcAcquire ==
    \E w \in Workers, op \in ConcOps, session_id \in SessionIdArgs(issued) :
        /\ w_pc[w].at = "idle"
        /\ op = "create_session" => issued + PendingCreates(w_pc) < MaxIds
        /\ lock_free(_lock)
        /\ _lock' = w
        /\ w_pc' = [w_pc EXCEPT ![w] =
                       [ at |-> FirstStep(op), op |-> op,
                         arg |-> IF op \in {"get_session", "delete_session"}
                                 THEN session_id ELSE NoSession,
                         snap |-> _sessions, t |-> now ]]
        /\ UNCHANGED w_ret
        /\ UNCHANGED <<wf_vars, loop_vars, sm_vars, ads_vars, ses_vars, cnt_vars>>

\* create_session and list_sessions: self._cleanup_expired()
ConcCleanup ==
    \E w \in Workers :
        /\ w_pc[w].at = "cleanup"
        /\ _sessions' = _cleanup_expired(_sessions, now)
        /\ Goto(w, IF w_pc[w].op = "create_session" THEN "evict" ELSE "collect")
        /\ UNCHANGED <<now, issued, sm_pc, sm_ret>>
        /\ UNCHANGED <<wf_vars, loop_vars, ads_vars, ses_vars, cnt_vars>>

\* create_session: "if len(self._sessions) >= self.MAX_SESSIONS: del oldest"
ConcEvict ==
    \E w \in Workers :
        /\ w_pc[w].at = "evict"
        /\ _sessions' = IF Len(_sessions) >= MAX_SESSIONS
                        THEN Remove(_sessions, oldest_id(_sessions))
                        ELSE _sessions
        /\ Goto(w, "insert")
        /\ UNCHANGED <<now, issued, sm_pc, sm_ret>>
        /\ UNCHANGED <<wf_vars, loop_vars, ads_vars, ses_vars, cnt_vars>>

\* create_session: the id is drawn, the session registered and returned
ConcInsert ==
    \E w \in Workers :
        /\ w_pc[w].at = "insert"
        /\ _sessions' = Put(_sessions, Session(NewSessionId(issued), now))
        /\ issued' = issued + 1
        /\ Return(w, [NoConcRet EXCEPT !.session = NewSessionId(issued)])
        /\ UNCHANGED <<now, sm_pc, sm_ret>>
        /\ UNCHANGED <<wf_vars, loop_vars, ads_vars, ses_vars, cnt_vars>>

\* list_sessions: "return [s.to_dict() for s in self._sessions.values()]"
ConcCollect ==
    \E w \in Workers :
        /\ w_pc[w].at = "collect"
        /\ Return(w, [NoConcRet EXCEPT
                         !.listed = [i \in DOMAIN _sessions |-> _sessions[i].session_id]])
        /\ UNCHANGED <<wf_vars, loop_vars, sm_vars, ads_vars, ses_vars, cnt_vars>>

\* get_session: "session = self._sessions.get(session_id)", None returned at once
ConcLookup ==
    \E w \in Workers :
        /\ w_pc[w].at = "lookup"
        /\ IF w_pc[w].arg \in SessionIds(_sessions)
           THEN Goto(w, "expiry")
           ELSE Return(w, NoConcRet)
        /\ UNCHANGED <<wf_vars, loop_vars, sm_vars, ads_vars, ses_vars, cnt_vars>>

\* get_session: the expiry check on the session the lookup found (the worker
\* holds the object), which is deleted when expired and returned when not
ConcExpiry ==
    \E w \in Workers :
        /\ w_pc[w].at = "expiry"
        /\ LET was == SelectSeq(w_pc[w].snap, LAMBDA s : s.session_id = w_pc[w].arg)
               known == SelectSeq(_sessions, LAMBDA s : s.session_id = w_pc[w].arg)
               session == IF known # <<>> THEN known[1] ELSE was[1]
           IN IF expired(session, now)
              THEN /\ _sessions' = Remove(_sessions, w_pc[w].arg)
                   /\ Return(w, NoConcRet)
              ELSE /\ UNCHANGED _sessions
                   /\ Return(w, [NoConcRet EXCEPT !.session = w_pc[w].arg])
        /\ UNCHANGED <<now, issued, sm_pc, sm_ret>>
        /\ UNCHANGED <<wf_vars, loop_vars, ads_vars, ses_vars, cnt_vars>>

\* delete_session: "if session_id in self._sessions", False returned at once
ConcCheck ==
    \E w \in Workers :
        /\ w_pc[w].at = "check"
        /\ IF w_pc[w].arg \in SessionIds(_sessions)
           THEN Goto(w, "del")
           ELSE Return(w, NoConcRet)
        /\ UNCHANGED <<wf_vars, loop_vars, sm_vars, ads_vars, ses_vars, cnt_vars>>

\* delete_session: "del self._sessions[session_id]; return True"
ConcDelete ==
    \E w \in Workers :
        /\ w_pc[w].at = "del"
        /\ _sessions' = Remove(_sessions, w_pc[w].arg)
        /\ Return(w, [NoConcRet EXCEPT !.deleted = TRUE])
        /\ UNCHANGED <<now, issued, sm_pc, sm_ret>>
        /\ UNCHANGED <<wf_vars, loop_vars, ads_vars, ses_vars, cnt_vars>>

(***************************************************************************)
(* Requests that run the session loop next to the registry calls           *)
(***************************************************************************)

\* where a worker stands while _run_session_agent_loop waits for the model
\* (self._call_llm) or for a tool (call_tool)
SlowCalls == {"llm", "tool"}

\* chat_with_session after get_or_create_session returned: the worker has
\* the session its last registry call gave it and enters the loop, whose
\* first turn calls the model
RunSessionAgentLoop ==
    \E w \in Workers :
        /\ w_pc[w].at = "idle"
        /\ w_ret.worker = w
        /\ w_ret.session # NoSession
        /\ w_pc' = [w_pc EXCEPT ![w] =
                       [WorkerIdle EXCEPT !.at = "llm", !.op = "chat", !.arg = w_ret.session]]
        /\ UNCHANGED <<_lock, w_ret>>
        /\ UNCHANGED <<wf_vars, loop_vars, sm_vars, ads_vars, ses_vars, cnt_vars>>

\* the model call returns: with tool calls, the first of which is executed,
\* or with the final text, which ends the request
ModelCallReturns ==
    \E w \in Workers, tool_calls \in BOOLEAN :
        /\ w_pc[w].at = "llm"
        /\ w_pc' = [w_pc EXCEPT ![w] =
                       IF tool_calls THEN [w_pc[w] EXCEPT !.at = "tool"] ELSE WorkerIdle]
        /\ UNCHANGED <<_lock, w_ret>>
        /\ UNCHANGED <<wf_vars, loop_vars, sm_vars, ads_vars, ses_vars, cnt_vars>>

\* the tool call returns: the loop goes on to the next turn, or the guard
\* ends the request
ToolCallReturns ==
    \E w \in Workers, should_stop \in BOOLEAN :
        /\ w_pc[w].at = "tool"
        /\ w_pc' = [w_pc EXCEPT ![w] =
                       IF should_stop THEN WorkerIdle ELSE [w_pc[w] EXCEPT !.at = "llm"]]
        /\ UNCHANGED <<_lock, w_ret>>
        /\ UNCHANGED <<wf_vars, loop_vars, sm_vars, ads_vars, ses_vars, cnt_vars>>

(***************************************************************************)
(* ADS server tools: servers_local/ads_server.py                           *)
(***************************************************************************)

\* What a tool call meets outside the server: whether get_ads_client() gives a
\* client, what the ADS side does with the tool's command (answers with status
\* success, answers with another status, or the connection raises), whether
\* the connection raises on the save_design a tool sends after commands that
\* succeeded, and whether the arguments pass the tool's own validation.
AdsEnvs ==
    [ client : BOOLEAN, ads : {"success", "error", "raises"}, save_raises : BOOLEAN,
      args_ok : BOOLEAN ]

\* what a tool call did: the context afterwards, the commands sent to ADS, the
\* text it answered with, whether it did its work, whether the phase check
\* refused it, whether an exception left the tool, and the plan id in the answer
Reply(c, sent, text, ok) ==
    [ context |-> c, sent |-> sent, text |-> text, ok |-> ok, denied |-> FALSE,
      raised |-> FALSE, plan_id |-> None, saved |-> FALSE ]

\* "if error: return format_human_response(error)"
Refused(c) ==
    [ context |-> c, sent |-> <<>>, text |-> "not_available", ok |-> FALSE,
      denied |-> TRUE, raised |-> FALSE, plan_id |-> None, saved |-> FALSE ]

\* client._send_command raises outside any try of the tool
Raises(c, sent) ==
    [ context |-> c, sent |-> sent, text |-> None, ok |-> FALSE, denied |-> FALSE,
      raised |-> TRUE, plan_id |-> None, saved |-> FALSE ]

\* a call that went through a WorkflowManager method, each of which ends in
\* self._save_state(): the context it leaves is on the state file
Saved(r) == [r EXCEPT !.saved = TRUE]

\* mutant of check_tool_allowed: the check lets every call through
check_tool_allowed_always(c, tool_name) == None

\* check_tool_allowed: the "not available in the current state" text, or None
check_tool_allowed(c, tool_name) ==
    IF ~is_tool_allowed(c, tool_name) THEN "not_available" ELSE None

\* check_ads_connection: the commands it sends; connected iff ping answers success
check_ads_connection(env) == IF env.client THEN <<"ping">> ELSE <<>>

\* the tools that begin with check_tool_allowed
GuardedTools ==
    { "get_project_structure", "list_cells", "check_cell_exists", "open_existing_design",
      "plan_circuit", "execute_circuit_plan", "confirm_design_open", "add_component",
      "add_wire", "add_components_from_plan", "save_current_design", "finish_design" }

\* a tool that sends one command inside try/except and reports what came back
OneCommandTool(c, tool_name, command, env) ==
    IF check_tool_allowed(c, tool_name) # None THEN Refused(c)
    ELSE IF ~env.client THEN Reply(c, <<>>, "no_client", FALSE)
    ELSE IF env.ads = "raises" THEN Reply(c, <<command>>, "failed", FALSE)
    ELSE Reply(c, <<command>>, "done", env.ads = "success")

check_connection(c, env) ==
    Reply(c, check_ads_connection(env), "connection", env.client /\ env.ads = "success")

reset_workflow(c, env) ==
    IF c.state = "IDLE" THEN Reply(c, <<>>, "already_idle", TRUE)
    ELSE Saved(Reply(reset(c), <<>>, "reset", TRUE))

get_workflow_status(c, env) == Reply(c, <<>>, "status", TRUE)

get_project_structure(c, env) ==
    IF check_tool_allowed(c, "get_project_structure") # None THEN Refused(c)
    ELSE IF ~env.client THEN Reply(c, <<>>, "no_client", FALSE)
    ELSE IF env.ads = "raises" THEN Reply(c, <<"get_workspace_info">>, "failed", FALSE)
    ELSE Reply(c, <<"get_workspace_info", "list_libraries">>, "done", env.ads = "success")

list_cells(c, env) == OneCommandTool(c, "list_cells", "list_cells", env)

check_cell_exists(c, env) ==
    IF check_tool_allowed(c, "check_cell_exists") # None THEN Refused(c)
    ELSE IF ~env.args_ok THEN Reply(c, <<>>, "bad_library", FALSE)
    ELSE IF ~env.client THEN Reply(c, <<>>, "no_client", FALSE)
    ELSE IF env.ads = "raises" THEN Reply(c, <<"check_cell_exists">>, "failed", FALSE)
    ELSE Reply(c, <<"check_cell_exists">>, "done", env.ads = "success")

\* the existing design the model opens: library "lib", cell "amp"
open_existing_design(c, env) ==
    IF check_tool_allowed(c, "open_existing_design") # None THEN Refused(c)
    ELSE IF ~env.client THEN Reply(c, <<>>, "no_client", FALSE)
    ELSE IF env.ads = "raises" THEN Reply(c, <<"check_cell_exists">>, "failed", FALSE)
    ELSE IF env.ads # "success" THEN Reply(c, <<"check_cell_exists">>, "cell_not_found", FALSE)
    ELSE LET c1 == [c EXCEPT !.plan_id = None, !.plan_data = None,
                             !.components_added = 0, !.total_components = 0,
                             !.library_name = "lib", !.cell_name = "amp",
                             !.design_uri = "lib:amp:schematic"]
         IN Saved(Reply(transition_to(c1, "COMPONENT_ADDING", <<>>),
                        <<"check_cell_exists">>, "done", TRUE))

\* get_current_design has no phase check
get_current_design(c, env) ==
    IF ~env.client THEN Reply(c, <<>>, "no_client", FALSE)
    ELSE IF env.ads = "raises" THEN Reply(c, <<"get_current_design">>, "failed", FALSE)
    ELSE Reply(c, <<"get_current_design">>, "done", env.ads = "success")

\* plan_circuit: plan_id is str(uuid.uuid4())[:8]; the plan goes to set_plan
\* and the answer carries "Plan ID: {plan_id}"
plan_circuit(c, plan_id, plan_name, env) ==
    IF check_tool_allowed(c, "plan_circuit") # None THEN Refused(c)
    ELSE [ Saved(Reply(set_plan(c, plan_id, plan_name),
                       check_ads_connection(env) \o
                           (IF env.client /\ env.ads = "success" THEN <<"list_libraries">>
                            ELSE <<>>),
                       "plan", TRUE))
           EXCEPT !.plan_id = plan_id ]

\* design_uri of execute_circuit_plan: f"{lib_name}:{cell_name}:schematic"
SchematicUri(plan_name) ==
    IF PlanData[plan_name].circuit.library = None THEN "None:amp:schematic"
    ELSE PlanData[plan_name].circuit.design_uri

execute_circuit_plan(c, env) ==
    IF check_tool_allowed(c, "execute_circuit_plan") # None THEN Refused(c)
    ELSE IF c.plan_data = None THEN Reply(c, <<>>, "no_plan", FALSE)
    ELSE IF ~env.client THEN Reply(c, <<>>, "no_client", FALSE)
    ELSE IF env.ads = "raises" THEN Reply(c, <<"create_schematic">>, "failed", FALSE)
    ELSE IF env.ads # "success"
    THEN Reply([c EXCEPT !.error_message = "failed"], <<"create_schematic">>, "failed", FALSE)
    ELSE IF env.save_raises
    THEN Reply(c, <<"create_schematic", "save_design">>, "failed", FALSE)
    ELSE Saved(Reply(transition_to(set_design_uri(c, SchematicUri(c.plan_data)),
                                   "WAITING_USER", <<>>),
                     <<"create_schematic", "save_design">>, "done", TRUE))

confirm_design_open(c, env) ==
    IF check_tool_allowed(c, "confirm_design_open") # None THEN Refused(c)
    ELSE Saved(Reply(transition_to(c, "COMPONENT_ADDING", <<>>),
                     IF env.client THEN <<"get_current_design">> ELSE <<>>, "done", TRUE))

add_component(c, env) ==
    IF check_tool_allowed(c, "add_component") # None THEN Refused(c)
    ELSE IF ~env.client THEN Reply(c, <<>>, "no_client", FALSE)
    ELSE IF env.ads = "raises" THEN Raises(c, <<"add_instance">>)
    ELSE IF env.ads = "success"
    THEN Saved(Reply(increment_components_added(c, 1), <<"add_instance">>, "done", TRUE))
    ELSE Reply(c, <<"add_instance">>, "failed", FALSE)

add_wire(c, env) ==
    IF check_tool_allowed(c, "add_wire") # None THEN Refused(c)
    ELSE IF ~env.client THEN Reply(c, <<>>, "no_client", FALSE)
    ELSE IF env.ads = "raises" THEN Raises(c, <<"add_wire">>)
    ELSE Reply(c, <<"add_wire">>, IF env.ads = "success" THEN "done" ELSE "failed",
               env.ads = "success")

\* one add_instance per component of the plan, then save_design
add_components_from_plan(c, env) ==
    IF check_tool_allowed(c, "add_components_from_plan") # None THEN Refused(c)
    ELSE IF c.plan_data = None THEN Reply(c, <<>>, "no_plan", FALSE)
    ELSE IF ~env.client THEN Reply(c, <<>>, "no_client", FALSE)
    ELSE IF c.design_uri = None THEN Reply(c, <<>>, "no_design_uri", FALSE)
    ELSE IF env.ads = "raises" THEN Raises(c, <<"add_instance">>)
    ELSE LET n == Len(PlanData[c.plan_data].components)
             sent == [i \in 1..n |-> "add_instance"] \o <<"save_design">>
         IN IF env.save_raises
            THEN IF env.ads = "success"
                 THEN Saved(Raises(increment_components_added(c, n), sent))
                 ELSE Raises(c, sent)
            ELSE IF env.ads = "success"
            THEN Saved(Reply(increment_components_added(c, n), sent, "done", TRUE))
            ELSE Reply(c, sent, "done", FALSE)

save_current_design(c, env) ==
    IF check_tool_allowed(c, "save_current_design") # None THEN Refused(c)
    ELSE IF ~env.client THEN Reply(c, <<>>, "no_client", FALSE)
    ELSE IF env.ads = "raises" THEN Raises(c, <<"save_design">>)
    ELSE Reply(c, <<"save_design">>, IF env.ads = "success" THEN "done" ELSE "failed",
               env.ads = "success")

finish_design(c, env) ==
    IF check_tool_allowed(c, "finish_design") # None THEN Refused(c)
    ELSE IF env.client /\ c.design_uri # None /\ env.ads = "raises"
    THEN Raises(c, <<"save_design">>)
    ELSE Saved(Reply(transition_to(c, "COMPLETED", <<>>),
                     IF env.client /\ c.design_uri # None THEN <<"save_design">> ELSE <<>>,
                     "done", TRUE))

\* every tool of the server
AdsTools == GuardedTools \cup {"check_connection", "reset_workflow", "get_workflow_status",
                               "get_current_design"}

\* the server's tool of that name, called
ads_tool(c, tool_name, plan_id, plan_name, env) ==
    CASE tool_name = "check_connection" -> check_connection(c, env)
      [] tool_name = "reset_workflow" -> reset_workflow(c, env)
      [] tool_name = "get_workflow_status" -> get_workflow_status(c, env)
      [] tool_name = "get_project_structure" -> get_project_structure(c, env)
      [] tool_name = "list_cells" -> list_cells(c, env)
      [] tool_name = "check_cell_exists" -> check_cell_exists(c, env)
      [] tool_name = "open_existing_design" -> open_existing_design(c, env)
      [] tool_name = "get_current_design" -> get_current_design(c, env)
      [] tool_name = "plan_circuit" -> plan_circuit(c, plan_id, plan_name, env)
      [] tool_name = "execute_circuit_plan" -> execute_circuit_plan(c, env)
      [] tool_name = "confirm_design_open" -> confirm_design_open(c, env)
      [] tool_name = "add_component" -> add_component(c, env)
      [] tool_name = "add_wire" -> add_wire(c, env)
      [] tool_name = "add_components_from_plan" -> add_components_from_plan(c, env)
      [] tool_name = "save_current_design" -> save_current_design(c, env)
      [] tool_name = "finish_design" -> finish_design(c, env)

NoAdsCall ==
    [ tool |-> None, sent |-> <<>>, text |-> None, ok |-> FALSE, denied |-> FALSE,
      raised |-> FALSE, plan_id |-> None ]

InitAds == ads_ret = NoAdsCall

\* what a call leaves in ads_ret
AdsRet(tool_name, r) ==
    [ tool |-> tool_name, sent |-> r.sent, text |-> r.text, ok |-> r.ok,
      denied |-> r.denied, raised |-> r.raised, plan_id |-> r.plan_id ]

\* the call keeps components_added within the bound of the model
Fits(r) == r.context.components_added <= MaxAdded

\* a call of a tool of the server
CallAdsTool ==
    \E tool_name \in AdsTools, env \in AdsEnvs, plan_id \in PlanIds, plan_name \in PlanNames :
        LET r == ads_tool(context, tool_name, plan_id, plan_name, env)
        IN /\ Fits(r)
           /\ context' = r.context
           /\ state_file' = IF r.saved THEN _save_state(r.context) ELSE state_file
           /\ ads_ret' = AdsRet(tool_name, r)
           /\ UNCHANGED <<wf_ret, loop_vars, sm_vars, conc_vars, ses_vars, cnt_vars>>

(***************************************************************************)
(* The session loop with the tools of the ADS server behind call_tool      *)
(***************************************************************************)

\* self._tools = get_openai_tools(): the catalog built once in
\* _initialize_agent from every registered tool, passed to the model by
\* _call_llm in every turn
_tools == AdsTools

\* the tool calls a model may request from that catalog
CatalogToolCalls == [name : _tools, arguments : {RawX1}]

\* call_tool(name, args) for a tool of the ADS server, through the registry and
\* the MCP proxy: the tool's answer, or the error text the proxy makes of an
\* exception
call_tool(r) ==
    [ ok |-> r.ok, raised |-> FALSE, denied |-> r.denied,
      result |-> IF r.raised THEN PlainError ELSE format_human_response(r.ok) ]

\* a completion with a call of a tool of the catalog
LLMCatalogToolCall ==
    \E tc \in CatalogToolCalls :
        /\ pc = "think"
        /\ Len(calls) < MaxCalls
        /\ turn_count' = turn_count + 1
        /\ pending' = <<tc>>
        /\ messages' = Append(messages, Msg("assistant", None, "tool_calls"))
        /\ llm_messages' = Append(llm_messages, Msg("assistant", None, "tool_calls"))
        /\ pc' = "tools"
        /\ UNCHANGED <<loop_state, calls, response, last_check>>
        /\ UNCHANGED <<wf_vars, sm_vars, ads_vars, conc_vars, ses_vars, cnt_vars>>

\* a tool call of the batch, executed by the ADS server
AdsToolStep ==
    /\ pc = "tools"
    /\ pending # <<>>
    /\ \E env \in AdsEnvs, plan_id \in PlanIds, plan_name \in PlanNames :
        LET r == ads_tool(context, Head(pending).name, plan_id, plan_name, env)
        IN /\ Fits(r)
           /\ ToolPass(call_tool(r))
           /\ context' = r.context
           /\ state_file' = IF r.saved THEN _save_state(r.context) ELSE state_file
           /\ ads_ret' = AdsRet(Head(pending).name, r)
    /\ UNCHANGED <<wf_ret, sm_vars, conc_vars, ses_vars, cnt_vars>>

(***************************************************************************)
(* Two sessions side by side: Session, and what their tool calls share     *)
(***************************************************************************)

\* two conversations, each with its Session object
SessionNames == {"A", "B"}

\* bounds: the entries of a chat_session's history, and the clock
MaxMessages == 2
MaxClock == 1

\* the tools the two sessions call, with the arguments they call them with
SessionTools == {"plan_circuit", "reset_workflow"}
SessionToolArgs == << <<"x", 1>> >>
SessionPlanId == "id1"
SessionPlanName == CHOOSE n \in PlanNames : TRUE

\* Session(session_id=...) created at time t: messages, control_layer and
\* last_activity come from the default factories, one object each per session
NewSession(t) == [messages |-> <<>>, control_layer |-> LoopState, last_activity |-> t]

\* mutant of add_message: last_activity is left as it was
add_message_no_touch(ses, role, content, t) ==
    [ses EXCEPT !.messages = Append(@, Msg(role, None, content))]

\* Session.add_message at time t
add_message(ses, role, content, t) ==
    [ses EXCEPT !.messages = Append(@, Msg(role, None, content)), !.last_activity = t]

\* Session.add_tool_call_message at time t
add_tool_call_message(ses, t) ==
    [ses EXCEPT !.messages = Append(@, Msg("assistant", None, "tool_calls")),
                !.last_activity = t]

\* Session.add_tool_result at time t
add_tool_result(ses, name, content, t) ==
    [ses EXCEPT !.messages = Append(@, Msg("tool", name, content)), !.last_activity = t]

\* mutant of clear_messages: the history is emptied, the guard is kept
clear_messages_keeps_guard(ses, t) ==
    [ses EXCEPT !.messages = <<>>, !.last_activity = t]

\* Session.clear_messages at time t
clear_messages(ses, t) ==
    [ses EXCEPT !.messages = <<>>, !.control_layer = LoopState, !.last_activity = t]

\* mutant of session_record_tool_call: one control layer behind every session
session_record_tool_call_shared(ss, s, tool_name, tool_args) ==
    [b \in DOMAIN ss |->
        [ss[b] EXCEPT !.control_layer = record_tool_call(@, tool_name, tool_args)]]

\* "control_layer = session.control_layer" and
\* "control_layer.record_tool_call(tool_name, tool_args)" in the loop of session s
session_record_tool_call(ss, s, tool_name, tool_args) ==
    [ss EXCEPT ![s].control_layer = record_tool_call(@, tool_name, tool_args)]

\* get_workflow_manager() as the tools of the ADS server see it when the call
\* comes from session s: the one WorkflowManager of the server process
get_workflow_manager(s) == context

NoSessionOp == [session |-> None, op |-> "none", tool |-> None]

InitSessions ==
    /\ chat_session = [s \in SessionNames |-> NewSession(0)]
    /\ ses_ret = NoSessionOp

\* time.time() moves on
SessionTick ==
    /\ now < MaxClock
    /\ now' = now + 1
    /\ ses_ret' = [NoSessionOp EXCEPT !.op = "tick"]
    /\ UNCHANGED <<chat_session, _sessions, issued, sm_pc, sm_ret>>
    /\ UNCHANGED <<wf_vars, loop_vars, ads_vars, conc_vars, cnt_vars>>

\* the loop of session s adds the user message: session.add_message("user", message)
AddMessage ==
    \E s \in SessionNames :
        /\ Len(chat_session[s].messages) < MaxMessages
        /\ chat_session' = [chat_session EXCEPT ![s] = add_message(@, "user", "message", now)]
        /\ ses_ret' = [NoSessionOp EXCEPT !.session = s, !.op = "add_message"]
        /\ UNCHANGED <<wf_vars, loop_vars, sm_vars, ads_vars, conc_vars, cnt_vars>>

\* the loop of session s adds the model's tool-call message
AddToolCallMessage ==
    \E s \in SessionNames :
        /\ Len(chat_session[s].messages) < MaxMessages
        /\ chat_session' = [chat_session EXCEPT ![s] = add_tool_call_message(@, now)]
        /\ ses_ret' = [NoSessionOp EXCEPT !.session = s, !.op = "add_tool_call_message"]
        /\ UNCHANGED <<wf_vars, loop_vars, sm_vars, ads_vars, conc_vars, cnt_vars>>

\* the loop of session s processes one tool call: the guard of the session
\* records it, call_tool runs the tool of the ADS server, the result is added
\* to the history and the guard gives its verdict
SessionToolCall ==
    \E s \in SessionNames, tool_name \in SessionTools :
        LET env == [client |-> TRUE, ads |-> "success", save_raises |-> FALSE,
                    args_ok |-> TRUE]
            r == ads_tool(get_workflow_manager(s), tool_name, SessionPlanId,
                          SessionPlanName, env)
            recorded == session_record_tool_call(chat_session, s, tool_name, SessionToolArgs)
        IN /\ Len(chat_session[s].messages) < MaxMessages
           /\ chat_session' = [recorded EXCEPT ![s] = add_tool_result(@, tool_name, "result", now)]
           /\ context' = r.context
           /\ state_file' = IF r.saved THEN _save_state(r.context) ELSE state_file
           /\ ses_ret' = [session |-> s, op |-> "tool_call", tool |-> tool_name]
           /\ UNCHANGED <<wf_ret, loop_vars, sm_vars, ads_vars, conc_vars, cnt_vars>>

\* clear_session_history of main.py on session s: session.clear_messages()
ClearMessages ==
    \E s \in SessionNames :
        /\ chat_session' = [chat_session EXCEPT ![s] = clear_messages(@, now)]
        /\ ses_ret' = [NoSessionOp EXCEPT !.session = s, !.op = "clear_messages"]
        /\ UNCHANGED <<wf_vars, loop_vars, sm_vars, ads_vars, conc_vars, cnt_vars>>

\* clear_session_history of main.py on the session of the loop, between two
\* invocations: session.clear_messages()
ClearSessionHistory ==
    LET cleared == clear_messages([ messages |-> messages, control_layer |-> loop_state,
                                    last_activity |-> now ], now)
    IN /\ pc = "idle"
       /\ messages' = cleared.messages
       /\ loop_state' = cleared.control_layer
       /\ UNCHANGED <<calls, pc, turn_count, pending, response, last_check, llm_messages>>
       /\ UNCHANGED <<wf_vars, sm_vars, ads_vars, conc_vars, ses_vars, cnt_vars>>

(***************************************************************************)
(* The call counter of adapters/qwen_adapter.py                            *)
(***************************************************************************)

\* _tool_call_counter["max_total_calls"] and ["max_per_tool_calls"]
max_total_calls == 15
max_per_tool_calls == 5

\* the tools the proxies are called for (self._original_name)
CounterTools == {"t1", "t2", "t3", "t4"}

\* the counter as the module creates it; a tool without an entry in
\* per_tool_count counts 0 (.get(tool_name, 0)); last_reset is left out
NewCounter == [total_count |-> 0, per_tool_count |-> [t \in CounterTools |-> 0]]

\* a thread outside _check_and_increment_call_count and reset_tool_call_counter
CounterIdle == [at |-> "idle", tool |-> None, per_tool |-> 0]

\* mutant of counter_lock_free: "with _counter_lock" never makes a thread wait
counter_lock_free_always(lock) == TRUE

\* "with _counter_lock": a thread enters when no thread holds the lock
counter_lock_free(lock) == lock = NoWorker

\* the lock when thread w leaves the with block
counter_release(lock, w) == IF lock = w THEN NoWorker ELSE lock

InitCounter ==
    /\ _tool_call_counter = NewCounter
    /\ _counter_lock = NoWorker
    /\ c_pc = [w \in Workers |-> CounterIdle]

\* MCPProxyTool.call: _check_and_increment_call_count(self._original_name)
\* enters its with block
CounterCallEnters ==
    \E w \in Workers, tool_name \in CounterTools :
        /\ c_pc[w].at = "idle"
        /\ counter_lock_free(_counter_lock)
        /\ _counter_lock' = w
        /\ c_pc' = [c_pc EXCEPT ![w] = [at |-> "check", tool |-> tool_name, per_tool |-> 0]]
        /\ UNCHANGED _tool_call_counter
        /\ UNCHANGED <<wf_vars, loop_vars, sm_vars, ads_vars, conc_vars, ses_vars>>

\* reset_tool_call_counter enters its with block
CounterResetEnters ==
    \E w \in Workers :
        /\ c_pc[w].at = "idle"
        /\ counter_lock_free(_counter_lock)
        /\ _counter_lock' = w
        /\ c_pc' = [c_pc EXCEPT ![w] = [CounterIdle EXCEPT !.at = "reset_total"]]
        /\ UNCHANGED _tool_call_counter
        /\ UNCHANGED <<wf_vars, loop_vars, sm_vars, ads_vars, conc_vars, ses_vars>>

\* per_tool = per_tool_count.get(tool_name, 0) and the two tests
CounterCheck ==
    \E w \in Workers :
        LET per_tool == _tool_call_counter.per_tool_count[c_pc[w].tool]
            denied == \/ per_tool >= max_per_tool_calls
                      \/ _tool_call_counter.total_count >= max_total_calls
        IN /\ c_pc[w].at = "check"
           /\ c_pc' = [c_pc EXCEPT ![w].at = IF denied THEN "denied" ELSE "total",
                                   ![w].per_tool = per_tool]
           /\ UNCHANGED <<_tool_call_counter, _counter_lock>>
           /\ UNCHANGED <<wf_vars, loop_vars, sm_vars, ads_vars, conc_vars, ses_vars>>

\* "return False, msg": the with block is left
CounterDenied ==
    \E w \in Workers :
        /\ c_pc[w].at = "denied"
        /\ c_pc' = [c_pc EXCEPT ![w] = CounterIdle]
        /\ _counter_lock' = counter_release(_counter_lock, w)
        /\ UNCHANGED _tool_call_counter
        /\ UNCHANGED <<wf_vars, loop_vars, sm_vars, ads_vars, conc_vars, ses_vars>>

\* _tool_call_counter["total_count"] += 1
CounterIncrementTotal ==
    \E w \in Workers :
        /\ c_pc[w].at = "total"
        /\ _tool_call_counter' = [_tool_call_counter EXCEPT !.total_count = @ + 1]
        /\ c_pc' = [c_pc EXCEPT ![w].at = "tool"]
        /\ UNCHANGED _counter_lock
        /\ UNCHANGED <<wf_vars, loop_vars, sm_vars, ads_vars, conc_vars, ses_vars>>

\* _tool_call_counter["per_tool_count"][tool_name] = per_tool + 1, and
\* "return True, ''": the with block is left
CounterIncrementTool ==
    \E w \in Workers :
        /\ c_pc[w].at = "tool"
        /\ _tool_call_counter' =
               [_tool_call_counter EXCEPT !.per_tool_count[c_pc[w].tool] = c_pc[w].per_tool + 1]
        /\ c_pc' = [c_pc EXCEPT ![w] = CounterIdle]
        /\ _counter_lock' = counter_release(_counter_lock, w)
        /\ UNCHANGED <<wf_vars, loop_vars, sm_vars, ads_vars, conc_vars, ses_vars>>

\* reset_tool_call_counter: _tool_call_counter["total_count"] = 0
CounterResetTotal ==
    \E w \in Workers :
        /\ c_pc[w].at = "reset_total"
        /\ _tool_call_counter' = [_tool_call_counter EXCEPT !.total_count = 0]
        /\ c_pc' = [c_pc EXCEPT ![w].at = "reset_tools"]
        /\ UNCHANGED _counter_lock
        /\ UNCHANGED <<wf_vars, loop_vars, sm_vars, ads_vars, conc_vars, ses_vars>>

\* reset_tool_call_counter: _tool_call_counter["per_tool_count"] = {}, and the
\* with block is left
CounterResetTools ==
    \E w \in Workers :
        /\ c_pc[w].at = "reset_tools"
        /\ _tool_call_counter' =
               [_tool_call_counter EXCEPT !.per_tool_count = NewCounter.per_tool_count]
        /\ c_pc' = [c_pc EXCEPT ![w] = CounterIdle]
        /\ _counter_lock' = counter_release(_counter_lock, w)
        /\ UNCHANGED <<wf_vars, loop_vars, sm_vars, ads_vars, conc_vars, ses_vars>>
Init ==
    /\ InitWF
    /\ InitLoop
    /\ InitSM
    /\ InitAds
    /\ InitConc
    /\ InitSessions
    /\ InitCounter

NextWF ==
    \/ TransitionTo
    \/ Reset
    \/ SetPlan
    \/ SetDesignUri
    \/ IncrementComponentsAdded
    \/ IsToolAllowed

SpecWF == Init /\ [][NextWF]_vars


NextGuard == GuardRecord

SpecGuard == Init /\ [][NextGuard]_vars

NextLoop ==
    \/ StartInvocation
    \/ LLMRaises
    \/ LLMEmptyResponse
    \/ LLMText
    \/ LLMToolCalls
    \/ ToolStep

SpecLoop == Init /\ [][NextLoop]_vars

NextDeep ==
    \/ StartDeepInvocation
    \/ LLMNonRepeatingToolCall
    \/ DeepToolStep

SpecDeep == Init /\ [][NextDeep]_vars

NextSM ==
    \/ Tick
    \/ Touch
    \/ CreateSession
    \/ GetSession
    \/ DeleteSession
    \/ ListSessions
    \/ GetOrCreateSession
    \/ GetOrCreateSessionCreate

SpecSM == Init /\ [][NextSM]_vars

NextAds == CallAdsTool

SpecAds == Init /\ [][NextAds]_vars

NextAgent ==
    \/ StartInvocation
    \/ LLMRaises
    \/ LLMText
    \/ LLMCatalogToolCall
    \/ AdsToolStep

SpecAgent == Init /\ [][NextAgent]_vars

NextConc ==
    \/ ConcTick
    \/ ConcAcquire
    \/ ConcCleanup
    \/ ConcEvict
    \/ ConcInsert
    \/ ConcCollect
    \/ ConcLookup
    \/ ConcExpiry
    \/ ConcCheck
    \/ ConcDelete

SpecConc == Init /\ [][NextConc]_vars

NextChat ==
    \/ ConcAcquire
    \/ ConcCleanup
    \/ ConcEvict
    \/ ConcInsert
    \/ ConcCollect
    \/ ConcLookup
    \/ ConcExpiry
    \/ ConcCheck
    \/ ConcDelete
    \/ RunSessionAgentLoop
    \/ ModelCallReturns
    \/ ToolCallReturns

SpecChat == Init /\ [][NextChat]_vars

NextSessions ==
    \/ SessionTick
    \/ AddMessage
    \/ AddToolCallMessage
    \/ SessionToolCall
    \/ ClearMessages

SpecSessions == Init /\ [][NextSessions]_vars

NextReplay ==
    \/ StartReplayInvocation
    \/ LLMRaises
    \/ LLMEmptyResponse
    \/ LLMText
    \/ LLMSingleToolCall
    \/ ToolStep

SpecReplay == Init /\ [][NextReplay]_vars

\* a step of a running invocation: a model call or a tool call returns
LoopStep ==
    \/ LLMNonRepeatingToolCall
    \/ LLMRaises
    \/ LLMEmptyResponse
    \/ LLMText
    \/ DeepToolStep

NextTurns ==
    \/ StartInvocation
    \/ LoopStep

SpecTurns == Init /\ [][NextTurns]_vars

\* the model and the tools answer every call: a running invocation, which is
\* one thread of the executor, takes its next step
SpecTurnsLive == SpecTurns /\ WF_vars(LoopStep)

NextCounter ==
    \/ CounterCallEnters
    \/ CounterResetEnters
    \/ CounterCheck
    \/ CounterDenied
    \/ CounterIncrementTotal
    \/ CounterIncrementTool
    \/ CounterResetTotal
    \/ CounterResetTools

SpecCounter == Init /\ [][NextCounter]_vars

NextCarry ==
    \/ StartDeepInvocation
    \/ LLMNonRepeatingToolCall
    \/ DeepToolStep
    \/ ClearSessionHistory

SpecCarry == Init /\ [][NextCarry]_vars
\* the context of the same state with every other field at its default
StateOnly(c) == [WorkflowContext EXCEPT !.state = c.state]

\* C1: whatever the state and the content of the context, reset() leaves
\* state = IDLE, plan_id, plan_data, design_uri, library_name, cell_name and
\* error_message None and both counters 0: nothing of the old context is kept.
C1_ResetClearsContext ==
    wf_ret.op = "reset" =>
        /\ context.state = "IDLE"
        /\ context.plan_id = None /\ context.plan_data = None
        /\ context.design_uri = None /\ context.library_name = None
        /\ context.cell_name = None /\ context.error_message = None
        /\ context.components_added = 0 /\ context.total_components = 0

\* a reset that started from COMPLETED with a plan set
C1_Witness ==
    wf_ret.op = "reset" /\ wf_ret.from_state = "COMPLETED" /\ wf_ret.had_plan
        /\ context.state = "IDLE"

\* C2: in every state the WorkflowManager operations reach, plan_id non-null
\* implies state # IDLE.
C2_PlanIdImpliesNotIdle == context.plan_id # None => context.state # "IDLE"

\* C3: is_tool_allowed depends on the state alone: a call answers what a manager
\* in the same state with no plan, no design and no progress answers, it leaves
\* the context unchanged, and a call repeated right after gives the same answer.
C3_VisibilityDependsOnStateOnly ==
    [][ wf_ret'.op = "is_tool_allowed" =>
            /\ context' = context
            /\ wf_ret'.result = is_tool_allowed(StateOnly(context), wf_ret'.tool)
            /\ (wf_ret.op = "is_tool_allowed" /\ wf_ret.tool = wf_ret'.tool)
                    => wf_ret'.result = wf_ret.result ]_vars

\* is_tool_allowed asked, and answered yes, of a manager that holds a plan, a
\* design and progress
C3_Witness ==
    /\ wf_ret.op = "is_tool_allowed" /\ wf_ret.result
    /\ context.plan_id # None /\ context.design_uri # None
    /\ context.components_added > 0 /\ context.state = "WAITING_USER"


\* two recorded calls are identical: the same tool with the same arguments
SameCall(a, b) == a.name = b.name /\ SameDict(a.args, b.args)

\* the number of calls immediately before the latest one that are identical to it
RECURSIVE Repeats(_)
Repeats(cs) ==
    IF Len(cs) <= 1 THEN 0
    ELSE IF SameCall(cs[Len(cs) - 1], cs[Len(cs)])
         THEN 1 + Repeats(SubSeq(cs, 1, Len(cs) - 1))
         ELSE 0

\* C4: after any sequence of recorded calls the consecutive counter is the number
\* of immediately preceding calls with the same tool and the same arguments
\* (whatever the order of the keys) as the latest call; for a tool outside the
\* termination and confirmation sets INFINITE_LOOP_DETECTED is the verdict
\* exactly when that number has reached 3, that is from the 4th identical call.
C4_ConsecutiveCounter ==
    /\ loop_state.consecutive_same_tool_calls = Repeats(calls)
    /\ \A r \in ToolResults :
         (calls # <<>> /\ calls[Len(calls)].name
                \notin (TERMINATION_ACTIONS \cup CONFIRMATION_REQUIRED_ACTIONS))
         => ( should_terminate_after_tool(loop_state, calls[Len(calls)].name, r)
                  = INFINITE_LOOP_DETECTED
              <=> Repeats(calls) >= MAX_SAME_TOOL_CALLS )

\* four identical calls in a row of a plain tool, the keys given in two orders
C4_Witness ==
    /\ Len(calls) = 4 /\ Repeats(calls) = 3
    /\ calls[1].name = "add_component"
    /\ calls[1].args # calls[2].args
    /\ loop_state.consecutive_same_tool_calls = 3

\* the guard state st with its counters set to k identical calls in a row and
\* n recorded calls
WithCounters(st, k, n) ==
    [st EXCEPT !.consecutive_same_tool_calls = k,
               !.tools_called_in_session = [i \in 1..n |-> "add_component"]]

\* the values of the two counters: none, and the limit the guard compares with
ConsecutiveValues == {0, MAX_SAME_TOOL_CALLS}
RecordedValues == {0, MAX_TOOL_CALLS_TOTAL}

\* the two verdicts that do not depend on counting
CountFree == {TERMINATION_ACTION_CALLED, USER_CONFIRMATION_REQUIRED}

\* C32: after any recorded calls, the first one included, the check after a
\* tool of the confirmation set answers USER_CONFIRMATION_REQUIRED; and for
\* every tool and result, whether the answer is TERMINATION_ACTION_CALLED,
\* USER_CONFIRMATION_REQUIRED or neither is the same whatever values the
\* counters of the guard are given.
C32_ConfirmationIgnoresCounters ==
    /\ \A t \in CONFIRMATION_REQUIRED_ACTIONS, r \in ToolResults :
          calls # <<>> =>
              should_terminate_after_tool(loop_state, t, r) = USER_CONFIRMATION_REQUIRED
    /\ \A t \in GuardTools, r \in ToolResults, k \in ConsecutiveValues, n \in RecordedValues :
          \A reason \in CountFree :
              should_terminate_after_tool(WithCounters(loop_state, k, n), t, r) = reason
              <=> should_terminate_after_tool(loop_state, t, r) = reason

\* the first call the guard recorded is plan_circuit, and the check after it
\* answers USER_CONFIRMATION_REQUIRED
C32_Witness ==
    /\ Len(calls) = 1
    /\ calls[1].name = "plan_circuit"
    /\ loop_state.turn_count = 1
    /\ should_terminate_after_tool(loop_state, "plan_circuit", JsonSuccess)
           = USER_CONFIRMATION_REQUIRED

\* the number of executed calls of one tool in the session
ExecutedOf(tool_name) ==
    Cardinality({i \in DOMAIN calls : calls[i].executed /\ calls[i].name = tool_name})

\* the number of executed calls in the session
ExecutedTotal == Cardinality({i \in DOMAIN calls : calls[i].executed})

\* C5: a tool outside the termination and confirmation sets, called with
\* arguments that differ between consecutive calls, is executed 5 times and the
\* 6th call is denied without being executed: no tool is ever executed more than
\* MAX_TOOL_CALLS_PER_TOOL times in a session.
C5_PerToolQuota ==
    \A tool_name \in GuardTools \ (TERMINATION_ACTIONS \cup CONFIRMATION_REQUIRED_ACTIONS) :
        ExecutedOf(tool_name) <= MAX_TOOL_CALLS_PER_TOOL

\* C6: a call requested when the session has recorded 15 calls is not invoked:
\* the executed calls of a session never exceed MAX_TOOL_CALLS_TOTAL.
C6_TotalQuota == ExecutedTotal <= MAX_TOOL_CALLS_TOTAL

Registered(sessions) == {sessions[i] : i \in DOMAIN sessions}

\* idle time (now - last_activity) exceeds the expiration window
Expired(s, t) == t - s.last_activity > _expiration

\* session_id is registered and its session is expired at time t
ExpiredId(sessions, session_id, t) ==
    \E s \in Registered(sessions) : s.session_id = session_id /\ Expired(s, t)

\* session_id is registered and its session is not expired at time t
LiveId(sessions, session_id, t) ==
    \E s \in Registered(sessions) : s.session_id = session_id /\ ~Expired(s, t)

\* this step is a get_session call (on its own or the one get_or_create_session makes)
GetSessionStep ==
    \/ sm_ret'.op \in {"get_session", "get_or_create_session.get_session"}
    \/ sm_ret'.op = "get_or_create_session" /\ sm_pc.at = "idle" /\ sm_ret'.arg # NoSession

\* this step is a create_session call (on its own or one get_or_create_session makes)
CreateSessionStep ==
    \/ sm_ret'.op = "create_session"
    \/ sm_ret'.op = "get_or_create_session" /\ sm_pc.at = "creating"
    \/ sm_ret'.op = "get_or_create_session" /\ sm_pc.at = "idle" /\ sm_ret'.arg = NoSession

\* C8: a get_session call on a session whose idle time exceeds the expiration
\* window returns no session and removes it from the registry; list_sessions
\* lists only sessions that were registered and not expired when it was called;
\* and an id that has left the registry never enters it again, so a removed
\* session is in no later list_sessions output.
C8_ExpiredSessionNeverReturned ==
    [][ /\ (GetSessionStep /\ ExpiredId(_sessions, sm_ret'.arg, now))
            => /\ sm_ret'.session = NoSession
               /\ sm_ret'.arg \notin SessionIds(_sessions')
        /\ sm_ret'.op = "list_sessions"
            => \A i \in DOMAIN sm_ret'.listed :
                   /\ LiveId(_sessions, sm_ret'.listed[i], now)
                   /\ sm_ret'.listed[i] \in SessionIds(_sessions')
        /\ \A id \in SessionIds(_sessions') \ SessionIds(_sessions) : id > issued
      ]_vars

\* get_session was called on a registered, expired session: it returned no
\* session and the session is gone
C8_Witness ==
    /\ sm_ret.op = "get_session"
    /\ sm_ret.case = "expired"
    /\ sm_ret.session = NoSession
    /\ sm_ret.arg \notin SessionIds(_sessions)
    /\ _sessions # <<>>

\* C9: the registry never holds more than MAX_SESSIONS sessions, each under
\* its own id; a create_session call registers the new session under an id no
\* session had before, keeps only sessions that were registered and not
\* expired, and evicts, of the sessions that were not expired, exactly one with
\* the smallest last_activity when there are MAX_SESSIONS or more of them, and
\* none otherwise.
C9_CapacityAndEviction ==
    /\ [](/\ Len(_sessions) <= MAX_SESSIONS
          /\ Cardinality(SessionIds(_sessions)) = Len(_sessions))
    /\ [][ CreateSessionStep =>
             LET live == {s \in Registered(_sessions) : ~Expired(s, now)}
                 after == Registered(_sessions')
                 fresh == {s \in after : s.session_id = sm_ret'.session}
                 evicted == live \ after
             IN /\ sm_ret'.session \notin SessionIds(_sessions)
                /\ sm_ret'.session > issued
                /\ Cardinality(fresh) = 1
                /\ after \ fresh \subseteq live
                /\ IF Cardinality(live) >= MAX_SESSIONS
                   THEN /\ Cardinality(evicted) = 1
                        /\ \A e \in evicted : \A s \in live :
                               e.last_activity <= s.last_activity
                   ELSE evicted = {}
         ]_vars

\* create_session ran at capacity and evicted a session that was registered
\* after one that stays: the evicted one is chosen by last_activity
C9_Witness ==
    /\ sm_ret.op = "create_session"
    /\ sm_ret.evicted # NoSession
    /\ Len(_sessions) = MAX_SESSIONS
    /\ sm_ret.session \in SessionIds(_sessions)
    /\ \E s \in Registered(_sessions) : s.session_id < sm_ret.evicted

\* C10: get_or_create_session(id) with a registered, not expired id returns
\* that session and leaves the registry unchanged; with no id, an unknown id or
\* an expired id it goes on to create_session and returns a session that was
\* not registered before and is registered when the call returns.
C10_GetOrCreate ==
    [][ /\ (sm_pc.at = "idle"
            /\ sm_ret'.op \in {"get_or_create_session", "get_or_create_session.get_session"})
            => IF LiveId(_sessions, sm_ret'.arg, now)
               THEN /\ sm_ret'.op = "get_or_create_session"
                    /\ sm_ret'.session = sm_ret'.arg
                    /\ _sessions' = _sessions
                    /\ sm_pc'.at = "idle"
               ELSE \/ /\ sm_ret'.arg # NoSession
                       /\ sm_ret'.op = "get_or_create_session.get_session"
                       /\ sm_pc'.at = "creating"
                    \/ /\ sm_ret'.arg = NoSession
                       /\ sm_ret'.op = "get_or_create_session"
                       /\ sm_ret'.session \notin SessionIds(_sessions)
                       /\ sm_ret'.session \in SessionIds(_sessions')
        /\ (sm_pc.at = "creating" /\ sm_pc'.at = "idle")
            => /\ sm_ret'.op = "get_or_create_session"
               /\ sm_ret'.session # sm_pc.session_id
               /\ sm_ret'.session \notin SessionIds(_sessions)
               /\ sm_ret'.session \in SessionIds(_sessions')
      ]_vars

\* get_or_create_session was called with the id of an expired session and
\* returned a new, registered session
C10_Witness ==
    /\ sm_ret.op = "get_or_create_session"
    /\ sm_ret.case = "expired"
    /\ sm_ret.session # sm_ret.arg
    /\ sm_ret.session \in SessionIds(_sessions)
    /\ sm_ret.arg \notin SessionIds(_sessions)

(***************************************************************************)
(* Session agent loop: the turn ceiling, failures and the batch            *)
(***************************************************************************)

\* the last entry of the history
LastMessage(msgs) == msgs[Len(msgs)]

\* this step ends an invocation after a tool call
LoopEndsAfterTool == pc = "tools" /\ pc' = "idle"

\* the invocation ended after turn 10 with the fixed message as the response
\* and as the last assistant entry of the session, and nothing was raised
EndedAtCeiling ==
    /\ turn_count' = MAX_TURNS
    /\ response'.kind = "max_turns"
    /\ ~response'.raised
    /\ LastMessage(messages') = Msg("assistant", None, "max_turns")

\* C11 as stated: when the model requests, turn after turn, one tool call that
\* is outside the termination and confirmation sets and differs from the call
\* before it, and never returns a text, the invocation ends only after turn 10,
\* with the fixed "simplify your request" message as the response and as the
\* last assistant entry of the session, and no exception is raised.
C11_Original == [][LoopEndsAfterTool => EndedAtCeiling]_vars

\* C11 amended: the same, for an invocation at whose end the guard of the
\* session has recorded fewer than MAX_TOOL_CALLS_TOTAL calls.
C11_TurnCeiling ==
    [][(LoopEndsAfterTool /\ Len(calls') < MAX_TOOL_CALLS_TOTAL) => EndedAtCeiling]_vars

\* an invocation of ten turns, one tool call each, has ended with the fixed message
C11_Witness ==
    /\ pc = "idle"
    /\ turn_count = MAX_TURNS
    /\ Len(calls) = MAX_TURNS
    /\ Len(calls) < MAX_TOOL_CALLS_TOTAL
    /\ response.kind = "max_turns"
    /\ LastMessage(messages) = Msg("assistant", None, "max_turns")

\* the texts chat_with_session puts under "response"
ResponseStrings == {"text", "empty", "error", "max_turns", "termination", "exception"}

\* C14: whatever the model and the tools do (an exception, no response, an
\* empty or unusable content, an error payload, arguments that are no JSON),
\* an invocation that has returned has returned a result with a response
\* string and the session id, and no exception has reached the caller.
C14_AlwaysAResult ==
    (pc = "idle" /\ response.kind # "none") =>
        /\ response.kind \in ResponseStrings
        /\ response.session_id
        /\ ~response.raised

\* the model answered, after a tool call, with a content that is no string:
\* the exception left the loop and chat_with_session turned it into a result
C14_Witness ==
    /\ pc = "idle"
    /\ response.kind = "exception"
    /\ response.session_id
    /\ LastMessage(messages) = Msg("assistant", None, "not_str")
    /\ calls # <<>>

\* this step is one pass of the loop over a tool call
ToolCallStep == pc = "tools" /\ calls' # calls

LLMRaisesStep == pc = "think" /\ response'.kind = "error"

\* a is the beginning of b
IsPrefix(a, b) == Len(a) <= Len(b) /\ SubSeq(b, 1, Len(a)) = a

\* C16: when the model call raises, the invocation ends with the error
\* response, and the history is the history from before the failure, entry by
\* entry, followed by the error response alone; no step of the loop changes or
\* removes an entry of the history.
C16_HistoryKeptOnFailure ==
    [][ /\ LLMRaisesStep =>
              /\ pc' = "idle"
              /\ messages' = Append(messages, Msg("assistant", None, "error"))
        /\ IsPrefix(messages, messages')
      ]_vars

\* the model call raised in turn 2, after a turn with a tool call: the user
\* message, the tool-call message and the tool result precede the error
C16_Witness ==
    /\ pc = "idle"
    /\ response.kind = "error"
    /\ turn_count = 2
    /\ Len(messages) = 4
    /\ messages[1].role = "user"
    /\ messages[2] = Msg("assistant", None, "tool_calls")
    /\ messages[3].role = "tool"
    /\ messages[4] = Msg("assistant", None, "error")

\* C17: when the check after a tool call of a batch signals termination, that
\* call has been recorded and executed, the invocation ends there with the
\* reason of that check, and what is left of the batch is dropped: between
\* invocations nothing is recorded by the guard and nothing is executed.
C17_FirstTerminationWins ==
    [][ /\ (ToolCallStep /\ last_check'.reason # NoReason) =>
              /\ pc' = "idle"
              /\ response'.kind = "termination"
              /\ response'.reason = last_check'.reason
              /\ Len(calls') = Len(calls) + 1
              /\ calls'[Len(calls')].executed
              /\ calls'[Len(calls')].name = Head(pending).name
              /\ loop_state' = record_tool_call(loop_state, Head(pending).name,
                                                json_loads_or_empty(Head(pending).arguments))
        /\ pc = "idle" =>
              /\ calls' = calls
              /\ loop_state' = loop_state
              /\ pending' = <<>>
      ]_vars

\* the first call of a batch of two ended the invocation: one call recorded
\* and executed, the second still unprocessed
C17_Witness ==
    /\ pc = "idle"
    /\ response.kind = "termination"
    /\ response.reason = last_check.reason
    /\ last_check.rest = 1
    /\ Len(pending) = 1
    /\ Len(calls) = 1
    /\ calls[1].executed

\* the tool calls of the last assistant entry with tool calls that have no
\* tool-result entry after it: the calls of the completion not yet processed
Unanswered == pending

\* C36: once an invocation has returned, every tool call of an assistant entry
\* of the history has its tool-result entry: none is left unanswered, however
\* the invocation ended.
C36_EveryToolCallAnswered == pc = "idle" => Unanswered = <<>>

(***************************************************************************)
(* ADS server tools: properties                                            *)
(***************************************************************************)

\* C12: a call of a tool that begins with check_tool_allowed, made in a state
\* whose allowed set does not hold the tool, answers with the "not available
\* in the current state" text, sends no command to ADS and leaves the workflow
\* state and every other field of the context as they were.
C12_DeniedCallChangesNothing ==
    [][ (ads_ret'.tool \in GuardedTools /\ ads_ret'.tool \notin get_allowed_tools(context))
          => /\ ads_ret'.denied
             /\ ads_ret'.text = "not_available"
             /\ ads_ret'.sent = <<>>
             /\ context' = context
      ]_vars

\* add_component was called in WAITING_USER, with a design and a plan in the
\* context, and was refused
C12_Witness ==
    /\ ads_ret.tool = "add_component"
    /\ ads_ret.denied
    /\ ads_ret.text = "not_available"
    /\ ads_ret.sent = <<>>
    /\ context.state = "WAITING_USER"
    /\ context.plan_id # None
    /\ context.design_uri # None

\* C13: plan_circuit is allowed in a fresh IDLE workflow; a plan_circuit call
\* that the phase check lets through leaves the state SCHEMATIC_CREATED, the
\* plan_id the id generated by the call, which is not None, and
\* total_components the number of components of the plan, and its answer
\* carries that plan id.
C13_PlanCircuitFromIdle ==
    /\ [](context = WorkflowContext => is_tool_allowed(context, "plan_circuit"))
    /\ [][ (ads_ret'.tool = "plan_circuit" /\ is_tool_allowed(context, "plan_circuit"))
             => /\ ~ads_ret'.denied
                /\ context'.state = "SCHEMATIC_CREATED"
                /\ ads_ret'.plan_id \in PlanIds
                /\ ads_ret'.plan_id # None
                /\ context'.plan_id = ads_ret'.plan_id
                /\ context'.plan_data \in PlanNames
                /\ context'.total_components = Len(PlanData[context'.plan_data].components)
                /\ ads_ret'.text = "plan"
         ]_vars

\* plan_circuit ran with a plan of two components
C13_Witness ==
    /\ ads_ret.tool = "plan_circuit"
    /\ ads_ret.text = "plan"
    /\ ads_ret.plan_id # None
    /\ context.state = "SCHEMATIC_CREATED"
    /\ context.plan_id = ads_ret.plan_id
    /\ context.total_components = 2

\* the call was an execute_circuit_plan in which ADS created the schematic:
\* create_schematic answered success, after which the tool sends save_design
CreatedSchematic(ret) ==
    /\ ret.tool = "execute_circuit_plan"
    /\ ret.sent = <<"create_schematic", "save_design">>

\* C28: execute_circuit_plan sends create_schematic only when the context
\* holds a plan, and of two tool calls in a row, the second of which is not
\* preceded by a plan_circuit that set a new plan, at most one is an
\* execute_circuit_plan that created the schematic in ADS.
C28_NoSecondCreateWithoutNewPlan ==
    [][ /\ (ads_ret'.tool = "execute_circuit_plan" /\ ads_ret'.sent # <<>>)
              => context.plan_data # None
        /\ ~(CreatedSchematic(ads_ret) /\ CreatedSchematic(ads_ret')) ]_vars

\* C34: whenever a tool of the server changes the state, the new state is one
\* _get_valid_transitions lists for the state it started from, or IDLE.
C34_ToolsTakeValidTransitions ==
    [][context'.state # context.state =>
          context'.state \in _get_valid_transitions(context.state) \cup {"IDLE"}]_vars

\* the step is a call of a tool of the server
AdsCall == ads_ret'.tool # None

\* C35: a call that sends a command to ADS, or that changes the context, is a
\* call of a tool is_tool_allowed admits in the state the call starts from,
\* and a call the phase check refuses is a call of a tool it does not admit.
C35_EnforcementMatchesVisibility ==
    [][AdsCall =>
          /\ (ads_ret'.sent # <<>> \/ context' # context)
                => is_tool_allowed(context, ads_ret'.tool)
          /\ ads_ret'.denied => ~is_tool_allowed(context, ads_ret'.tool)]_vars

\* C38: in every state the tools of the server reach from a fresh IDLE
\* workflow, SCHEMATIC_CREATED comes with a plan, and WAITING_USER and
\* COMPONENT_ADDING come with a design_uri.
C38_StatesCarryTheirData ==
    /\ context.state = "SCHEMATIC_CREATED" => context.plan_data # None
    /\ context.state \in {"WAITING_USER", "COMPONENT_ADDING"} => context.design_uri # None

\* execute_circuit_plan has created the schematic of a plan without a library:
\* the workflow waits for the user with the design_uri the tool composed
C38_Witness ==
    /\ context.state = "WAITING_USER"
    /\ context.plan_data = "planB"
    /\ context.design_uri = "None:amp:schematic"
    /\ ads_ret.tool = "execute_circuit_plan"
    /\ ads_ret.ok

(***************************************************************************)
(* The session loop and the workflow phases: properties                    *)
(***************************************************************************)

\* C18: whenever the loop is about to call the model, the tool catalog it
\* passes is exactly the allowed tool set of the current workflow state.
C18_CatalogIsAllowedSet == pc = "think" => _tools = get_allowed_tools(context)

\* C19: a tool call that the workflow phase check denies leaves the guard as it
\* was, no counter and no stored signature changed, and the check after it
\* answers neither INFINITE_LOOP_DETECTED nor TOOL_CALL_LIMIT_REACHED.
C19_DeniedCallNotRecorded ==
    [][ (pc = "tools" /\ last_check'.denied)
          => /\ loop_state' = loop_state
             /\ last_check'.reason \notin {INFINITE_LOOP_DETECTED, TOOL_CALL_LIMIT_REACHED}
      ]_vars

(***************************************************************************)
(* Session registry under concurrent workers: properties                   *)
(***************************************************************************)

\* this step is the return of the call of worker w
ReturnStep(w) == w_pc[w].at # "idle" /\ w_pc'[w].at = "idle"

\* what the call of a worker gives when it runs alone, in one piece, on the
\* registry the worker found when it got the lock
Atomically(wp, n) ==
    CASE wp.op = "create_session" ->
            LET r == create_session(wp.snap, NewSessionId(n), wp.t)
            IN [sessions |-> r.sessions, session |-> r.session, deleted |-> FALSE,
                listed |-> <<>>]
      [] wp.op = "get_session" ->
            LET r == get_session(wp.snap, wp.arg, wp.t)
            IN [sessions |-> r.sessions, session |-> r.session, deleted |-> FALSE,
                listed |-> <<>>]
      [] wp.op = "delete_session" ->
            LET r == delete_session(wp.snap, wp.arg)
            IN [sessions |-> r.sessions, session |-> NoSession, deleted |-> r.deleted,
                listed |-> <<>>]
      [] wp.op = "list_sessions" ->
            LET r == list_sessions(wp.snap, wp.t)
            IN [sessions |-> r.sessions, session |-> NoSession, deleted |-> FALSE,
                listed |-> r.listed]

\* C20: with several workers calling create_session, get_session,
\* delete_session and list_sessions at once, the registry never holds more than
\* MAX_SESSIONS sessions nor two under one id; when a call returns, the
\* registry and the value returned are those of the whole call run in one
\* piece on the registry as it was when the call got the lock, so that the
\* calls act as if run one after the other in the order they got the lock; an
\* id that enters the registry was never in it before (no deleted session
\* reappears); and a session leaves the registry only when it is expired, when
\* a delete_session call names it, or when create_session evicts it at capacity
\* (no created session is lost).
C20_CallsAreAtomic ==
    /\ [](/\ Len(_sessions) <= MAX_SESSIONS
          /\ Cardinality(SessionIds(_sessions)) = Len(_sessions))
    /\ [][ /\ \A w \in Workers :
                ReturnStep(w) =>
                    LET a == Atomically(w_pc[w], issued)
                    IN /\ _sessions' = a.sessions
                       /\ w_ret'.worker = w
                       /\ w_ret'.op = w_pc[w].op
                       /\ w_ret'.session = a.session
                       /\ w_ret'.deleted = a.deleted
                       /\ w_ret'.listed = a.listed
           /\ \A id \in SessionIds(_sessions') \ SessionIds(_sessions) : id > issued
           /\ \A id \in SessionIds(_sessions) \ SessionIds(_sessions') :
                \/ ExpiredId(_sessions, id, now)
                \/ \E w \in Workers :
                      /\ w_pc[w].op = "delete_session"
                      /\ w_pc[w].at = "del"
                      /\ w_pc[w].arg = id
                \/ \E w \in Workers :
                      /\ w_pc[w].op = "create_session"
                      /\ w_pc[w].at = "evict"
                      /\ Len(_sessions) >= MAX_SESSIONS
                      /\ id = oldest_id(_sessions)
         ]_vars

\* worker 1 is inside create_session, about to register a session in the
\* registry it found full and has evicted from, after worker 2 returned from
\* the create_session that filled the registry
C20_Witness ==
    /\ _lock = 1
    /\ w_pc[1].op = "create_session"
    /\ w_pc[1].at = "insert"
    /\ Len(w_pc[1].snap) = MAX_SESSIONS
    /\ Len(_sessions) = MAX_SESSIONS - 1
    /\ w_ret.worker = 2
    /\ w_ret.op = "create_session"
    /\ w_ret.session \in SessionIds(_sessions)

\* the workers that wait for the model or for a tool
Slow(wpc) == {w \in Workers : wpc[w].at \in SlowCalls}

\* C21: a worker that waits for the model or for a tool does not hold the
\* registry lock; whoever holds the lock is inside one of the four registry
\* calls; and while a worker waits for the model or a tool and no worker is
\* inside a registry call, a registry call of an idle worker can begin, and
\* so can the loop of an idle worker that has got its session.
C21_SlowCallsHoldNoLock ==
    /\ \A w \in Slow(w_pc) : _lock # w
    /\ _lock # NoWorker => w_pc[_lock].at \notin SlowCalls \cup {"idle"}
    /\ \A w \in Slow(w_pc), v \in Workers :
          (w_pc[v].at = "idle" /\ InBody(w_pc) = Slow(w_pc))
              => /\ ENABLED ConcAcquire
                 /\ (w_ret.worker = v /\ w_ret.session # NoSession)
                        => ENABLED RunSessionAgentLoop

\* worker 1 waits for a tool in the loop of its session while worker 2 is
\* inside create_session, holding the lock
C21_Witness ==
    /\ w_pc[1].at = "tool"
    /\ w_pc[1].op = "chat"
    /\ w_pc[1].arg \in SessionIds(_sessions)
    /\ _lock = 2
    /\ w_pc[2].op = "create_session"
    /\ w_pc[2].at = "insert"

\* the sessions on which a turn is in progress
InTurn(wpc) == {wpc[w].arg : w \in {v \in Workers : wpc[v].op = "chat"}}

\* this step is the capacity check of a create_session call
EvictionStep == \E w \in Workers : w_pc[w].at = "evict" /\ w_pc'[w].at = "insert"

\* C39: the capacity check of a create_session call removes no session on
\* which a turn is in progress: such a session stays registered.
C39_TurnSessionNotEvicted ==
    [][EvictionStep =>
          \A id \in InTurn(w_pc) \cap SessionIds(_sessions) : id \in SessionIds(_sessions')]_vars

(***************************************************************************)
(* Claims about two sessions side by side                                  *)
(***************************************************************************)

\* the sessions other than s
OtherSessions(s) == SessionNames \ {s}

\* C22: an operation on one session (recording a tool call, clearing) leaves
\* the guard of every other session as it was: its counters, its stored
\* signatures, and with them the verdict it gives after any tool and result.
C22_GuardPerSession ==
    [][\A s \in SessionNames : ses_ret'.session = s =>
          \A b \in OtherSessions(s) :
              /\ chat_session'[b].control_layer = chat_session[b].control_layer
              /\ \A t \in GuardTools, res \in ToolResults :
                    should_terminate_after_tool(chat_session'[b].control_layer, t, res)
                    = should_terminate_after_tool(chat_session[b].control_layer, t, res)]_vars

\* session A has just recorded its second reset_workflow in a row while
\* session B holds the one plan_circuit it recorded
C22_Witness ==
    /\ ses_ret = [session |-> "A", op |-> "tool_call", tool |-> "reset_workflow"]
    /\ chat_session["A"].control_layer.consecutive_same_tool_calls = 1
    /\ chat_session["A"].control_layer.turn_count = 2
    /\ chat_session["B"].control_layer.tools_called_in_session = <<"plan_circuit">>
    /\ chat_session["B"].control_layer.turn_count = 1

\* C23: a tool call of one session leaves the workflow every other session
\* observes as it was: state, context and allowed tools.
C23_WorkflowPerSession ==
    [][\A s \in SessionNames : (ses_ret'.session = s /\ ses_ret'.op = "tool_call") =>
          \A b \in OtherSessions(s) :
              /\ get_workflow_manager(b)' = get_workflow_manager(b)
              /\ get_allowed_tools(get_workflow_manager(b))'
                 = get_allowed_tools(get_workflow_manager(b))]_vars

\* C24 as stated: whatever the operation, the earlier history of a session is
\* the beginning of the later one, and an append sets last_activity to the
\* current time.
C24_Original ==
    [][\A s \in SessionNames :
          /\ IsPrefix(chat_session[s].messages, chat_session'[s].messages)
          /\ Len(chat_session'[s].messages) > Len(chat_session[s].messages)
                => chat_session'[s].last_activity = now']_vars

\* the step is clear_messages on session s
Clears(s) == ses_ret'.session = s /\ ses_ret'.op = "clear_messages"

\* C24, amended: every operation other than clear_messages leaves the earlier
\* history as the beginning of the later one; clear_messages leaves the history
\* empty; every append and every clear sets last_activity to the current time.
C24_AppendOnlyUntilCleared ==
    [][\A s \in SessionNames :
          /\ ~Clears(s) => IsPrefix(chat_session[s].messages, chat_session'[s].messages)
          /\ Clears(s) => chat_session'[s].messages = <<>>
          /\ (Clears(s) \/ Len(chat_session'[s].messages) > Len(chat_session[s].messages))
                => chat_session'[s].last_activity = now']_vars

\* after the clock moved, session A got its second entry, a user message, and
\* session B has been cleared
C24_Witness ==
    /\ ses_ret = [session |-> "A", op |-> "add_message", tool |-> None]
    /\ Len(chat_session["A"].messages) = 2
    /\ chat_session["A"].messages[2].role = "user"
    /\ chat_session["A"].last_activity = 1
    /\ chat_session["B"].messages = <<>>
    /\ chat_session["B"].last_activity = 1

(***************************************************************************)
(* Claims about the history the model is sent                              *)
(***************************************************************************)

\* C25: whenever the loop is about to call the model, or is between the tool
\* calls of a completion, the list it holds for the model is the system message
\* followed by the stored history, entry by entry; and no step of the loop takes
\* anything away from the stored history, so that an invocation on a session
\* with a history is sent that history as it was produced.
C25_ModelSeesStoredHistory ==
    /\ [](pc \in {"think", "tools"} =>
             llm_messages = _build_messages_from_session(messages))
    /\ [][IsPrefix(messages, messages')]_vars

\* the second invocation on the session is about to call the model again after
\* a tool result; the first one ended with the response of a termination
C25_Witness ==
    /\ pc = "think"
    /\ Invocations(messages) = 2
    /\ messages[Len(messages)].role = "tool"
    /\ \E i \in DOMAIN messages :
          /\ messages[i] = Msg("assistant", None, USER_CONFIRMATION_REQUIRED)
          /\ messages[i + 1].role = "user"
    /\ Len(llm_messages) = Len(messages) + 1

(***************************************************************************)
(* Claims about the turns of one invocation                                *)
(***************************************************************************)

\* this step is a completion without tool calls whose content is c
TextCompletion(c) ==
    /\ pc = "think"
    /\ Len(messages') > Len(messages)
    /\ messages'[Len(messages) + 1] = Msg("assistant", None, c)

\* C31: a completion without tool calls, with a text or with an empty text,
\* ends the invocation, and the response is that text, in whichever turn.
C31_TextIsTheResponse ==
    [][\A c \in {"text", "empty"} :
          TextCompletion(c) =>
              /\ pc' = "idle"
              /\ response'.kind = c
              /\ ~response'.raised]_vars

\* the model calls of the running or last invocation: one per turn
ModelCalls == turn_count

\* C33: an invocation makes at most MAX_TURNS model calls, a model call is made
\* only while fewer have been made, and an invocation that is running returns:
\* the loop is left with a response of chat_with_session.
C33_InvocationTerminates ==
    /\ [](ModelCalls <= MAX_TURNS)
    /\ [](pc = "think" => ModelCalls < MAX_TURNS)
    /\ (pc # "idle") ~> (pc = "idle" /\ response.kind \in ResponseStrings)

\* an invocation has returned after its tenth model call, which asked for a tool
C33_Witness ==
    /\ pc = "idle"
    /\ ModelCalls = MAX_TURNS
    /\ Len(calls) = MAX_TURNS
    /\ response.kind = "max_turns"

\* the tool calls the guard of the session holds
Recorded(st) == Len(st.tools_called_in_session)

\* this step starts an invocation
InvocationStarts == pc = "idle" /\ pc' = "think"

\* this step is clear_messages on the session
HistoryCleared == pc = "idle" /\ pc' = "idle" /\ messages' = <<>>

\* C40: an invocation starts with the guard the session had; the guard loses
\* what it recorded only when clear_messages replaces it by a new one, and
\* clear_messages always does; and with MAX_TOOL_CALLS_TOTAL calls or more
\* recorded, a tool call ends the invocation with a termination reason, so
\* that an invocation started in that condition ends at its first tool call.
C40_GuardCarriesOver ==
    /\ [][InvocationStarts => loop_state' = loop_state]_vars
    /\ [][HistoryCleared => loop_state' = LoopState]_vars
    /\ [][Recorded(loop_state') < Recorded(loop_state) =>
              (HistoryCleared /\ loop_state' = LoopState)]_vars
    /\ [][(pc = "tools" /\ Recorded(loop_state) >= MAX_TOOL_CALLS_TOTAL) =>
              /\ pc' = "idle"
              /\ response'.kind = "termination"
              /\ response'.reason # NoReason
              /\ turn_count' = 1]_vars

\* after 16 calls, the last of which ended an invocation at its first tool
\* call, the history was cleared, and the first tool call of the next
\* invocation has let the loop go on to its second turn
C40_Witness ==
    /\ pc = "think"
    /\ turn_count = 1
    /\ Len(calls) = MAX_TOOL_CALLS_TOTAL + 2
    /\ Recorded(loop_state) = 1
    /\ last_check.reason = NoReason

(***************************************************************************)
(* Claims about the call counter of the Qwen adapter                       *)
(***************************************************************************)

\* the sum of f over the tools in S
RECURSIVE SumOver(_, _)
SumOver(S, f) ==
    IF S = {} THEN 0
    ELSE LET t == CHOOSE x \in S : TRUE IN f[t] + SumOver(S \ {t}, f)

\* no thread is between the statements that change the counter
NoUpdateUnderWay == \A w \in Workers : c_pc[w].at \in {"idle", "check", "denied"}

\* thread w is in a call that is denied: from the test to the return
InDeniedCall(w) == c_pc[w].at = "denied" \/ (c_pc[w].at = "check" /\ c_pc'[w].at = "denied")

\* C37: however calls and resets of two threads interleave, total_count is the
\* sum of per_tool_count whenever no update is under way, total_count never
\* exceeds max_total_calls, no per-tool count exceeds max_per_tool_calls, and
\* from the test to the return of a denied call no count changes.
C37_CounterConsistent ==
    /\ [](NoUpdateUnderWay =>
             _tool_call_counter.total_count
                 = SumOver(CounterTools, _tool_call_counter.per_tool_count))
    /\ [](_tool_call_counter.total_count <= max_total_calls)
    /\ [](\A t \in CounterTools : _tool_call_counter.per_tool_count[t] <= max_per_tool_calls)
    /\ [][\A w \in Workers : InDeniedCall(w) => _tool_call_counter' = _tool_call_counter]_vars

\* a call is denied for the total alone, with the other thread waiting for
\* the lock's owner to leave: 15 calls are counted, fewer than 5 for this tool
C37_Witness ==
    \E w \in Workers :
        /\ c_pc[w].at = "denied"
        /\ _counter_lock = w
        /\ _tool_call_counter.total_count = max_total_calls
        /\ c_pc[w].per_tool < max_per_tool_calls
        /\ SumOver(CounterTools, _tool_call_counter.per_tool_count) = max_total_calls

(***************************************************************************)
(* Workflow state machine: tool visibility and progress                    *)
(***************************************************************************)

\* C29: in every state other than IDLE get_allowed_tools() holds
\* reset_workflow, get_workflow_status and check_connection, and in IDLE it
\* does not hold reset_workflow.
C29_GlobalToolsOutsideIdle ==
    /\ context.state # "IDLE" =>
          {"reset_workflow", "get_workflow_status", "check_connection"}
              \subseteq get_allowed_tools(context)
    /\ context.state = "IDLE" => "reset_workflow" \notin get_allowed_tools(context)
    /\ wf_ret.op = "is_tool_allowed" /\ wf_ret.tool = "reset_workflow"
          => wf_ret.result = (wf_ret.from_state # "IDLE")

\* is_tool_allowed("reset_workflow") was asked in COMPONENT_ADDING, of a
\* manager that holds a plan, and answered yes
C29_Witness ==
    /\ wf_ret.op = "is_tool_allowed"
    /\ wf_ret.tool = "reset_workflow"
    /\ wf_ret.result
    /\ context.state = "COMPONENT_ADDING"
    /\ context.plan_id # None

\* the states a workflow with a plan goes through before it is completed
PlanLocked == {"SCHEMATIC_CREATED", "WAITING_USER", "COMPONENT_ADDING"}

\* this step is a transition_to call that the manager logs as invalid: the
\* target is neither in _get_valid_transitions of the state nor IDLE
FlaggedInvalid ==
    /\ wf_ret'.op = "transition_to"
    /\ context'.state \notin _get_valid_transitions(context.state) \cup {"IDLE"}

C30_CountersNeverDecrease ==
    [][ ads_ret'.tool # "reset_workflow" =>
            /\ context'.components_added >= context.components_added
            /\ context'.total_components >= context.total_components ]_vars

\* C26: at any time a new WorkflowManager created on the state file has a
\* context equal to the in-memory context of the manager in use, in state,
\* plan_id, plan_data, design_uri, library_name, cell_name, components_added,
\* total_components and error_message.
C26_FileMatchesContext ==
    \A f \in ContextFields : _load_state(state_file)[f] = context[f]
====
